---- MODULE Spec2Model ----
(***************************************************************************)
(* Model of the render-tree interpreter of src/v2/web/markdown.tsx         *)
(* (class RenderTreeToReact): one asynchronous pass over a render tree,    *)
(* with its four trackers (table state, footnote collector, match counter, *)
(* last-modified handle), the fence and math collaborators as pending      *)
(* promises, and Promise.all as index-addressed result arrays.             *)
(*                                                                         *)
(* Execution model (JavaScript run-to-completion):                         *)
(*   - `agenda` is the rest of the current synchronous segment: the calls  *)
(*     of render() that elems.map() of the enclosing renderAll() calls     *)
(*     still has to make, innermost first.  Render takes its head, so the  *)
(*     synchronous descent is depth-first pre-order, one node per step.    *)
(*   - a promise continuation (FenceSettle, MathSettle, Join, MainJoined,  *)
(*     FootnoteItem, Return) runs only when the agenda is empty.           *)
(*   - a node is identified by its path (child indices from the top-level  *)
(*     sequence, 1-based); the React key is the 0-based index.             *)
(*                                                                         *)
(* The legacy synchronous renderer of src/v2/web/markdown.ts               *)
(* (PreviewContent, ParseTreeRenderer) is modelled beside it: its render() *)
(* is one synchronous handler, so one action.                              *)
(***************************************************************************)
EXTENDS Integers, Sequences, FiniteSets, TLC

VARIABLES
    tree,             \* the input RenderTreeElem[] handed to run()
    pc,               \* position of run(): "new", "main", "footnotes", "done", "failed"
    agenda,           \* paths whose render() call is still to be made in this segment
    status,           \* per node: "new", "children", "fence", "math", "done", "rejected"
    fence,            \* per code node: what this.fence.render resolved with ("" before)
    shell,            \* per node: the element under construction (children not yet set)
    results,          \* per node (and <<>> for the top level): the Promise.all result array
    table,            \* this.table
    footNotes,        \* this.footNotes (paths of the collected fn-def nodes)
    matchCount,       \* this.matchCount
    lastModifiedRef,  \* this.lastModifiedRef (0 is null)
    refs,             \* number of React.createRef() objects created so far
    draining,         \* the range of this.footNotes that map() of renderFootnotes visits
    items,            \* the Promise.all result array of renderFootnotes
    drains,           \* how many times renderFootnotes read the collector
    result,           \* what run() resolved with
    mount,            \* whether the document has the element 'preview-root'
    preview,          \* the PreviewContent object: "none", "mounted", "threw"
    rootElem,         \* the child nodes of PreviewContent.rootElem
    renderer,         \* the ParseTreeRenderer of the last PreviewContent.render()
    renders,          \* number of PreviewContent.render() calls made
    previous,         \* what the preceding ReactMarkdownRenderer.render() call left
    other,            \* a second ReactMarkdownRenderer.render() call in flight
    state,            \* the State that React's reducer hook holds
    reduced,          \* the number of reducer() calls made and the action of the last
    dispatcher,       \* the GlobalDispatcher: its state copy, its dispatch, its calls
    keymapping        \* the KeyMapping: sortedShortcuts and its register() calls

(* the state outside the asynchronous render session *)
(* the state of the window outside the renderers *)
ui == <<state, reduced, dispatcher, keymapping>>

outer == <<mount, preview, rootElem, renderer, renders, previous, other, ui>>

vars == <<tree, pc, agenda, status, fence, shell, results, table, footNotes, matchCount,
          lastModifiedRef, refs, draining, items, drains, result, outer>>

----------------------------------------------------------------------------
(* Input render tree (RenderTreeElem of ./ipc, as read by render()) *)

AlignNull == "null"
Aligns == {"left", "center", "right", AlignNull}

Elem(t, c) == [t |-> t, c |-> c, text |-> <<>>, align |-> <<>>, id |-> 0]
Text(s) == [Elem("#text", <<>>) EXCEPT !.text = <<s>>]
TableElem(a, c) == [Elem("table", c) EXCEPT !.align = a]
FnDef(i, c) == [Elem("fn-def", c) EXCEPT !.id = i]
FnRef(i) == [Elem("fn-ref", <<>>) EXCEPT !.id = i]

RECURSIVE At(_, _)
At(forest, p) ==
    IF Len(p) = 1 THEN forest[p[1]] ELSE At(forest[p[1]].c, Tail(p))

ChildrenAt(forest, p) == IF p = <<>> THEN forest ELSE At(forest, p).c

RECURSIVE PathsOf(_, _)
PathsOf(forest, prefix) ==
    UNION {{Append(prefix, i)} \cup PathsOf(forest[i].c, Append(prefix, i)) :
           i \in 1..Len(forest)}

Parent(p) == SubSeq(p, 1, Len(p) - 1)
Idx(p) == p[Len(p)]
KeyOf(p) == Idx(p) - 1
ChildPaths(forest, p) == [i \in 1..Len(ChildrenAt(forest, p)) |-> Append(p, i)]
IsPrefix(p, q) == Len(p) <= Len(q) /\ SubSeq(q, 1, Len(p)) = p

----------------------------------------------------------------------------
(* Output tree (ReactNode): one record shape for every node value *)

NoKey == -1
NoStyle == ""
NoAnchor == <<"", 0>>
Anchor(prefix, n) == <<prefix, n>>

Blank == [tag |-> "", key |-> NoKey, cls |-> "", style |-> NoStyle, id |-> NoAnchor,
          href |-> NoAnchor, ref |-> 0, text |-> <<>>, c |-> <<>>]
Pending == [Blank EXCEPT !.tag = "#pending"]
Null == [Blank EXCEPT !.tag = "#null"]
Str(s) == [Blank EXCEPT !.tag = "#text", !.text = s]
El(tag, key) == [Blank EXCEPT !.tag = tag, !.key = key]

ContainerKinds ==
    {"p", "h", "a", "blockquote", "em", "strong", "del", "pre", "ol", "ul", "li",
     "task-list", "emoji", "table", "thead", "tbody", "tr", "th", "td",
     "match", "match-current", "match-start", "match-current-start"}
CellKinds == {"th", "td"}
KnownKinds ==
    ContainerKinds \cup {"#text", "img", "br", "code", "checkbox", "hr", "fn-ref",
                         "fn-def", "math", "html", "modified"}

TagOf(t) ==
    CASE t = "task-list" -> "li"
      [] t \in {"emoji", "match", "match-current", "match-start", "match-current-start"}
           -> "span"
      [] OTHER -> t

ClassOf(t) ==
    CASE t = "task-list" -> "task-list-item"
      [] t = "match" -> "search-text"
      [] t = "match-current" -> "search-text-current"
      [] t = "match-start" -> "search-text-start"
      [] t = "match-current-start" -> "search-text-current-start"
      [] OTHER -> ""

RECURSIVE Flatten(_)
Flatten(ss) == IF ss = <<>> THEN <<>> ELSE Head(ss) \o Flatten(Tail(ss))

RECURSIVE rawText(_)
rawText(elem) ==
    IF elem.t = "#text" THEN elem.text
    ELSE Flatten([i \in 1..Len(elem.c) |-> rawText(elem.c[i])])

isReactElement(node) == node.tag \notin {"#text", "#null"}

lastElementOf(nodes) ==
    IF Len(nodes) = 0 THEN Null
    ELSE IF isReactElement(nodes[Len(nodes)]) THEN nodes[Len(nodes)] ELSE Null

----------------------------------------------------------------------------
(* Trackers *)

NoTable == [set |-> FALSE, aligns |-> <<>>, index |-> 0]

(* the bounds check the other way round *)
tableAlignInverted(tbl) ==
    IF Len(tbl.aligns) >= tbl.index THEN NoStyle
    ELSE IF tbl.index + 1 \in DOMAIN tbl.aligns THEN tbl.aligns[tbl.index + 1]
    ELSE NoStyle
tableAlignStyle(tbl) ==
    IF Len(tbl.aligns) <= tbl.index THEN NoStyle
    ELSE IF tbl.aligns[tbl.index + 1] = AlignNull THEN NoStyle
    ELSE tbl.aligns[tbl.index + 1]

(* a table state that is set up by the first table only *)
enterTableOnce(elem) ==
    IF table.set THEN table ELSE [set |-> TRUE, aligns |-> elem.align, index |-> 0]
enterTable(elem) == [set |-> TRUE, aligns |-> elem.align, index |-> 0]
enterRow(tbl) == IF tbl.set THEN [tbl EXCEPT !.index = 0] ELSE tbl
(* a cursor that advances only past the cells that were given an alignment *)
nextColumnIfStyled(tbl) ==
    IF tbl.set /\ tableAlignStyle(tbl) # NoStyle THEN [tbl EXCEPT !.index = @ + 1] ELSE tbl
nextColumn(tbl) == IF tbl.set THEN [tbl EXCEPT !.index = @ + 1] ELSE tbl
cellStyle(tbl) == IF tbl.set THEN tableAlignStyle(tbl) ELSE NoStyle

TableAfter(tbl, elem) ==
    CASE elem.t = "table" -> enterTable(elem)
      [] elem.t = "tr" -> enterRow(tbl)
      [] elem.t \in CellKinds -> nextColumn(tbl)
      [] OTHER -> tbl

(* a counter that is incremented for every one of the four match kinds *)
CountsEveryMatch(t) ==
    t \in {"match", "match-current", "match-start", "match-current-start"}
CountsMatch(t) == t \in {"match-start", "match-current-start"}

(* a handle that stays with the first marker *)
firstModifiedRef(old, ref) == IF old = 0 THEN ref ELSE old
(* lastModified(): this.lastModifiedRef = ref, whatever it held before *)
lastModifiedRefAfter(old, ref) == ref

Marker(key, ref) ==
    [El("span", key) EXCEPT !.cls = "last-modified-marker", !.ref = ref]

----------------------------------------------------------------------------
(* Promise.all: a result array addressed by index *)

Slots(n) == [i \in 1..n |-> Pending]
Joined(slots) == \A i \in 1..Len(slots) : slots[i] # Pending
(* A result list that is appended to as children complete *)
PromiseAllByCompletion(slots, i, v) ==
    LET k == CHOOSE k \in 1..Len(slots) :
                 slots[k] = Pending /\ \A j \in 1..(k - 1) : slots[j] # Pending
    IN [slots EXCEPT ![k] = v]
PromiseAll(slots, i, v) == [slots EXCEPT ![i] = v]
Settle(res, p, v) == [res EXCEPT ![Parent(p)] = PromiseAll(@, Idx(p), v)]

(* The element a container kind builds before awaiting its children *)
Shell(elem, key, tbl) ==
    [El(TagOf(elem.t), key) EXCEPT
        !.cls = ClassOf(elem.t),
        !.style = IF elem.t \in CellKinds THEN cellStyle(tbl) ELSE NoStyle]

(* The value of a node kind that returns without awaiting anything *)
LeafValue(elem, key, ref) ==
    CASE elem.t = "#text" -> Str(elem.text)
      [] elem.t = "img" -> [El("img", key) EXCEPT !.text = rawText(elem)]
      [] elem.t = "br" -> El("br", key)
      [] elem.t = "hr" -> El("hr", key)
      [] elem.t = "checkbox" ->
           [El("input", key) EXCEPT !.cls = "task-list-item-checkbox"]
      [] elem.t = "fn-ref" ->
           [El("sup", key) EXCEPT
               !.c = <<[El("a", NoKey) EXCEPT
                          !.href = Anchor("#user-content-fn-", elem.id),
                          !.id = Anchor("user-content-fnref-", elem.id)]>>]
      [] elem.t = "html" -> [El("span", key) EXCEPT !.text = elem.text]
      [] elem.t = "modified" -> Marker(key, ref)
      [] OTHER -> Null

(* What this.fence.render(elem, key) resolves with: null, [node, false], [node, true] *)
FenceResults == {"null", "unmodified", "modified"}
FenceNode(key) == El("#fence", key)
MathNode(key) == El("#math", key)

(* a fragment that puts the marker after the collaborator's node *)
FenceOutputMarkerLast(r, key, ref) ==
    IF r = "modified"
    THEN [El("#fragment", key) EXCEPT !.c = <<FenceNode(key), Marker(NoKey, ref)>>]
    ELSE FenceNode(key)
(* case 'code', after the await: the value returned for a non-null fence result *)
FenceOutput(r, key, ref) ==
    IF r = "modified"
    THEN [El("#fragment", key) EXCEPT !.c = <<Marker(NoKey, ref), FenceNode(key)>>]
    ELSE FenceNode(key)

(* What props.children of a rendered element is: an array, one child, or absent *)
ChildrenProp(el) ==
    CASE el.tag \in {"#fragment"} -> "array"
      [] el.tag = "h" ->
           IF Len(el.c) = 0 THEN "none" ELSE IF Len(el.c) = 1 THEN "single" ELSE "array"
      [] el.tag = "sup" -> "single"
      [] el.tag \in {TagOf(t) : t \in ContainerKinds} \cup {"code"} -> "array"
      [] OTHER -> "none"

Backref(id) == [El("a", NoKey) EXCEPT !.href = Anchor("#user-content-fnref-", id)]

(* (lastElementOf(children)?.props?.children ?? children).push(backref) throws    *)
(* when props.children is a single child that is neither null nor undefined       *)
BackrefThrows(children) ==
    LET last == lastElementOf(children) IN
    /\ last # Null
    /\ ChildrenProp(last) = "single"
    /\ last.c[1] # Null

WithBackref(children, backref) ==
    LET last == lastElementOf(children) IN
    IF last # Null /\ ChildrenProp(last) = "array"
    THEN [children EXCEPT ![Len(children)].c = Append(@, backref)]
    ELSE Append(children, backref)

FootnoteItemOf(elem, idx, children) ==
    [El("li", idx) EXCEPT
        !.id = Anchor("user-content-fn-", elem.id),
        !.c = WithBackref(children, Backref(elem.id))]

FootnoteSection(lis) ==
    [El("section", NoKey) EXCEPT
        !.cls = "footnotes",
        !.c = <<[El("h2", NoKey) EXCEPT !.id = Anchor("footnote-label", 0)],
                [El("ol", NoKey) EXCEPT !.c = lis]>>]

(* run(): <>{blocks}{footNotes}</> *)
Root(blocks, footer) ==
    [El("#fragment", NoKey) EXCEPT !.c = <<[El("#array", NoKey) EXCEPT !.c = blocks], footer>>]

NoResult == [root |-> Null, lastModified |-> 0, matchCount |-> 0]

(* The trackers of a RenderTreeToReact after its constructor; styles is the    *)
(* style given to each cell rendered so far                                   *)
NewTrackers ==
    [table |-> NoTable, footNotes |-> <<>>, matchCount |-> 0, lastModifiedRef |-> 0,
     refs |-> 0, styles |-> <<>>]

(* an instance whose table state is the one of the instance already in flight *)
SessionSharing(tbl) == [NewTrackers EXCEPT !.table = tbl]
(* new RenderTreeToReact(mermaid, mathjax) while another instance has table   *)
(* state tbl: every tracker is a field of the new instance                    *)
SessionFor(tbl) == NewTrackers

RECURSIVE renderSync(_, _), renderAllSync(_, _)
(* elems.map(render) up to the first suspension of each call, on the trackers *)
renderAllSync(forest, st) ==
    IF forest = <<>> THEN st
    ELSE renderAllSync(Tail(forest), renderSync(Head(forest), st))

(* render(elem) up to its first suspension, on the trackers: the children of  *)
(* a code node are not rendered before its collaborator settles               *)
renderSync(elem, st) ==
    LET after ==
          [st EXCEPT
              !.table = TableAfter(@, elem),
              !.matchCount = IF CountsMatch(elem.t) THEN @ + 1 ELSE @,
              !.footNotes = IF elem.t = "fn-def" THEN Append(@, elem) ELSE @,
              !.refs = IF elem.t = "modified" THEN @ + 1 ELSE @,
              !.lastModifiedRef = IF elem.t = "modified"
                                  THEN lastModifiedRefAfter(@, st.refs + 1) ELSE @,
              !.styles = IF elem.t \in CellKinds THEN Append(@, cellStyle(st.table)) ELSE @]
    IN IF elem.t \in ContainerKinds THEN renderAllSync(elem.c, after) ELSE after

RECURSIVE drainSync(_, _, _)
(* renderFootnotes(): the bodies of the definitions that map() visits, from   *)
(* the k-th on                                                                *)
drainSync(k, visited, st) ==
    IF k > Len(visited) THEN st
    ELSE drainSync(k + 1, visited, renderAllSync(visited[k].c, st))

(* the part of run()'s result that the trackers determine *)
TrackedResult(st) ==
    [matchCount |-> st.matchCount, lastModified |-> st.lastModifiedRef,
     footNotes |-> [k \in 1..Len(st.footNotes) |-> st.footNotes[k].id],
     styles |-> st.styles]

(* a pass over a tree without code nodes, run alone *)
RunAlone(t) ==
    LET main == renderAllSync(t, NewTrackers) IN drainSync(1, main.footNotes, main)

NoOther == [pc |-> "none", tree |-> <<>>, tr |-> NewTrackers, result |-> TrackedResult(NewTrackers)]

----------------------------------------------------------------------------
(* Actions *)

(* The nodes of the tree, by path: the per-node records have one entry each *)
Nodes == DOMAIN status

(* No ReactMarkdownRenderer.render() call has been made before this one *)
NoPrevious ==
    [taken |-> FALSE, tree |-> <<>>, pc |-> "new", result |-> NoResult, fence |-> <<>>,
     table |-> NoTable, footNotes |-> <<>>]

InitSession ==
    /\ pc = "new"
    /\ agenda = <<>>
    /\ status = [p \in PathsOf(tree, <<>>) |-> "new"]
    /\ fence = [p \in PathsOf(tree, <<>>) |-> ""]
    /\ shell = [p \in PathsOf(tree, <<>>) |-> Blank]
    /\ results = [p \in PathsOf(tree, <<>>) \cup {<<>>} |-> <<>>]
    /\ table = NoTable
    /\ footNotes = <<>>
    /\ matchCount = 0
    /\ lastModifiedRef = 0
    /\ refs = 0
    /\ draining = <<>>
    /\ items = <<>>
    /\ drains = 0
    /\ result = NoResult

(* run(tree), up to `await this.renderAll(tree)`: renderAll starts its map() *)
Run ==
    /\ pc = "new"
    /\ pc' = "main"
    /\ agenda' = ChildPaths(tree, <<>>)
    /\ results' = [results EXCEPT ![<<>>] = Slots(Len(tree))]
    /\ UNCHANGED <<tree, outer, status, fence, shell, table, footNotes, matchCount,
                   lastModifiedRef, refs, draining, items, drains, result>>

(* children whose render() calls start after the calls that were due before *)
descendLater(children, rest) == rest \o children
(* `await this.renderAll(elem.c)`: map() calls render() on every child, each  *)
(* up to its first await, before the caller's next statement and before the  *)
(* render() calls of the siblings that follow                                *)
descend(children, rest) == children \o rest

(* render(elem, key) up to its first await (or its return) *)
Render ==
    /\ pc \in {"main", "footnotes"}
    /\ agenda # <<>>
    /\ LET p == Head(agenda)
           elem == At(tree, p)
           key == KeyOf(p)
       IN
       /\ table' = TableAfter(table, elem)
       /\ matchCount' = IF CountsMatch(elem.t) THEN matchCount + 1 ELSE matchCount
       /\ footNotes' = IF elem.t = "fn-def" THEN Append(footNotes, p) ELSE footNotes
       /\ refs' = IF elem.t = "modified" THEN refs + 1 ELSE refs
       /\ lastModifiedRef' = IF elem.t = "modified"
                             THEN lastModifiedRefAfter(lastModifiedRef, refs + 1)
                             ELSE lastModifiedRef
       /\ IF elem.t \in ContainerKinds
          THEN /\ status' = [status EXCEPT ![p] = "children"]
               /\ shell' = [shell EXCEPT ![p] = Shell(elem, key, table)]
               /\ results' = [results EXCEPT ![p] = Slots(Len(elem.c))]
               /\ agenda' = descend(ChildPaths(tree, p), Tail(agenda))
          ELSE IF elem.t \in {"code", "math"}
          THEN /\ status' = [status EXCEPT ![p] = IF elem.t = "code" THEN "fence" ELSE "math"]
               /\ agenda' = Tail(agenda)
               /\ UNCHANGED <<shell, results>>
          ELSE /\ status' = [status EXCEPT ![p] = "done"]
               /\ results' = Settle(results, p, LeafValue(elem, key, refs + 1))
               /\ agenda' = Tail(agenda)
               /\ UNCHANGED shell
    /\ UNCHANGED <<tree, outer, pc, fence, draining, items, drains, result>>

(* case 'code': this.fence.render(elem, key) settles and render() resumes *)
FenceSettle(p, r) ==
    /\ pc \in {"main", "footnotes"}
    /\ agenda = <<>>
    /\ status[p] = "fence"
    /\ fence' = [fence EXCEPT ![p] = r]
    /\ IF r = "null"
       THEN /\ status' = [status EXCEPT ![p] = "children"]
            /\ shell' = [shell EXCEPT ![p] = El("code", KeyOf(p))]
            /\ results' = [results EXCEPT ![p] = Slots(Len(At(tree, p).c))]
            /\ agenda' = ChildPaths(tree, p)
            /\ UNCHANGED <<refs, lastModifiedRef>>
       ELSE /\ status' = [status EXCEPT ![p] = "done"]
            /\ refs' = IF r = "modified" THEN refs + 1 ELSE refs
            /\ lastModifiedRef' = IF r = "modified"
                                  THEN lastModifiedRefAfter(lastModifiedRef, refs + 1)
                                  ELSE lastModifiedRef
            /\ results' = Settle(results, p, FenceOutput(r, KeyOf(p), refs + 1))
            /\ UNCHANGED <<shell, agenda>>
    /\ UNCHANGED <<tree, outer, pc, table, footNotes, matchCount, draining, items, drains, result>>

(* case 'math': the promise of this.mathjax.render(...) settles *)
MathSettle(p) ==
    /\ pc \in {"main", "footnotes"}
    /\ agenda = <<>>
    /\ status[p] = "math"
    /\ status' = [status EXCEPT ![p] = "done"]
    /\ results' = Settle(results, p, MathNode(KeyOf(p)))
    /\ UNCHANGED <<tree, outer, pc, agenda, fence, shell, table, footNotes, matchCount,
                   lastModifiedRef, refs, draining, items, drains, result>>

(* case 'code': the promise of this.fence.render(elem, key) rejects (or the    *)
(* call throws). Nothing catches it: render() rejects, so does every          *)
(* Promise.all above it, and the await in run() throws.                       *)
FenceReject(p) ==
    /\ pc \in {"main", "footnotes"}
    /\ agenda = <<>>
    /\ status[p] = "fence"
    /\ status' = [status EXCEPT ![p] = "rejected"]
    /\ pc' = "failed"
    /\ UNCHANGED <<tree, outer, agenda, fence, shell, results, table, footNotes, matchCount,
                   lastModifiedRef, refs, draining, items, drains, result>>

(* case 'math': the promise returned by this.mathjax.render(...) rejects *)
MathReject(p) ==
    /\ pc \in {"main", "footnotes"}
    /\ agenda = <<>>
    /\ status[p] = "math"
    /\ status' = [status EXCEPT ![p] = "rejected"]
    /\ pc' = "failed"
    /\ UNCHANGED <<tree, outer, agenda, fence, shell, results, table, footNotes, matchCount,
                   lastModifiedRef, refs, draining, items, drains, result>>

(* ReactMarkdownRenderer.render(t) is called again once the pass has ended:  *)
(* a new RenderTreeToReact is constructed for t. What the ended pass left is *)
(* recorded (with the ids of the definitions it collected).                  *)
RenderAgain(t) ==
    /\ pc \in {"done", "failed"}
    /\ ~previous.taken
    /\ previous' = [taken |-> TRUE, tree |-> tree, pc |-> pc, result |-> result,
                    fence |-> fence, table |-> table,
                    footNotes |-> [k \in 1..Len(footNotes) |-> At(tree, footNotes[k]).id]]
    /\ tree' = t
    /\ pc' = "new"
    /\ agenda' = <<>>
    /\ status' = [p \in PathsOf(t, <<>>) |-> "new"]
    /\ fence' = [p \in PathsOf(t, <<>>) |-> ""]
    /\ shell' = [p \in PathsOf(t, <<>>) |-> Blank]
    /\ results' = [p \in PathsOf(t, <<>>) \cup {<<>>} |-> <<>>]
    /\ table' = SessionFor(table).table
    /\ footNotes' = <<>>
    /\ matchCount' = SessionFor(table).matchCount
    /\ lastModifiedRef' = SessionFor(table).lastModifiedRef
    /\ refs' = 0
    /\ draining' = <<>>
    /\ items' = <<>>
    /\ drains' = 0
    /\ result' = NoResult
    /\ UNCHANGED <<mount, preview, rootElem, renderer, renders, other, ui>>

(* the first session waits for a collaborator and no render() call is running *)
Suspended ==
    /\ pc \in {"main", "footnotes"}
    /\ agenda = <<>>
    /\ \E p \in Nodes : status[p] \in {"fence", "math"}

(* ReactMarkdownRenderer.render(t) is called again while the first call is    *)
(* suspended: a new RenderTreeToReact, and run(t) up to its first await; the  *)
(* whole main tree is rendered up to the suspensions in this one job          *)
OtherRun(t) ==
    /\ other.pc = "none"
    /\ Suspended
    /\ other' = [other EXCEPT !.pc = "main", !.tree = t,
                              !.tr = renderAllSync(t, SessionFor(table))]
    /\ UNCHANGED <<tree, pc, agenda, status, fence, shell, results, table, footNotes,
                   matchCount, lastModifiedRef, refs, draining, items, drains, result,
                   mount, preview, rootElem, renderer, renders, previous, ui>>

(* the second call's renderFootnotes(), once its main tree has settled *)
OtherFootnotes ==
    /\ other.pc = "main"
    /\ agenda = <<>>
    /\ other' = [other EXCEPT !.pc = "footnotes",
                              !.tr = drainSync(1, other.tr.footNotes, other.tr)]
    /\ UNCHANGED <<tree, pc, agenda, status, fence, shell, results, table, footNotes,
                   matchCount, lastModifiedRef, refs, draining, items, drains, result,
                   mount, preview, rootElem, renderer, renders, previous, ui>>

(* the second call's run() returns *)
OtherReturn ==
    /\ other.pc = "footnotes"
    /\ agenda = <<>>
    /\ other' = [other EXCEPT !.pc = "done", !.result = TrackedResult(other.tr)]
    /\ UNCHANGED <<tree, pc, agenda, status, fence, shell, results, table, footNotes,
                   matchCount, lastModifiedRef, refs, draining, items, drains, result,
                   mount, preview, rootElem, renderer, renders, previous, ui>>

(* Document order of two nodes *)
Before(q, p) ==
    /\ q # p
    /\ \/ IsPrefix(q, p)
       \/ \E i \in 1..Len(q) :
            /\ i <= Len(p)
            /\ q[i] < p[i]
            /\ \A j \in 1..(i - 1) : q[j] = p[j]

(* A container all of whose children have settled *)
Resumable(p) == status[p] = "children" /\ Joined(results[p])

(* a container's `await this.renderAll(elem.c)` resumes: the element is       *)
(* returned. The resumptions that are due are jobs of one queue; they read   *)
(* and write no tracker, so they are taken in one order, the document's.     *)
Join(p) ==
    /\ pc \in {"main", "footnotes"}
    /\ agenda = <<>>
    /\ Resumable(p)
    /\ \A q \in Nodes : Resumable(q) => ~Before(q, p)
    /\ status' = [status EXCEPT ![p] = "done"]
    /\ results' = Settle(results, p, [shell[p] EXCEPT !.c = results[p]])
    /\ UNCHANGED <<tree, outer, pc, agenda, fence, shell, table, footNotes, matchCount,
                   lastModifiedRef, refs, draining, items, drains, result>>

(* run() that goes on to the footnotes without awaiting the main tree *)
BlocksNotAwaited == TRUE
(* Whether `await this.renderAll(tree)` of run() may resume *)
BlocksJoined == Joined(results[<<>>])

(* run() resumes after the main tree and calls renderFootnotes(), whose map() *)
(* starts renderAll(elem.c) for each definition collected so far              *)
MainJoined ==
    /\ pc = "main"
    /\ agenda = <<>>
    /\ BlocksJoined
    /\ pc' = "footnotes"
    /\ drains' = drains + 1
    /\ draining' = footNotes
    /\ items' = Slots(Len(footNotes))
    /\ results' = [p \in DOMAIN results |->
                     IF \E k \in 1..Len(footNotes) : footNotes[k] = p
                     THEN Slots(Len(At(tree, p).c)) ELSE results[p]]
    /\ agenda' = Flatten([k \in 1..Len(footNotes) |-> ChildPaths(tree, footNotes[k])])
    /\ UNCHANGED <<tree, outer, status, fence, shell, table, footNotes, matchCount,
                   lastModifiedRef, refs, result>>

(* the map() callback of renderFootnotes resumes for the k-th definition *)
FootnoteItem(k) ==
    /\ pc = "footnotes"
    /\ agenda = <<>>
    /\ k \in 1..Len(draining)
    /\ items[k] = Pending
    /\ Joined(results[draining[k]])
    /\ IF BackrefThrows(results[draining[k]])
       THEN /\ pc' = "failed"
            /\ UNCHANGED items
       ELSE /\ items' = PromiseAll(items, k,
                          FootnoteItemOf(At(tree, draining[k]), k - 1, results[draining[k]]))
            /\ UNCHANGED pc
    /\ UNCHANGED <<tree, outer, agenda, status, fence, shell, results, table, footNotes,
                   matchCount, lastModifiedRef, refs, draining, drains, result>>

(* renderFootnotes() resolves and run() returns its result *)
Return ==
    /\ pc = "footnotes"
    /\ agenda = <<>>
    /\ Joined(items)
    /\ pc' = "done"
    /\ result' = [root |-> Root(results[<<>>],
                                 IF Len(draining) = 0 THEN Null ELSE FootnoteSection(items)),
                  lastModified |-> lastModifiedRef,
                  matchCount |-> matchCount]
    /\ UNCHANGED <<tree, outer, agenda, status, fence, shell, results, table, footNotes,
                   matchCount, lastModifiedRef, refs, draining, items, drains>>

Next ==
    \/ Run
    \/ Render
    \/ \E p \in Nodes, r \in FenceResults : FenceSettle(p, r)
    \/ \E p \in Nodes : MathSettle(p)
    \/ \E p \in Nodes : FenceReject(p)
    \/ \E p \in Nodes : MathReject(p)
    \/ \E p \in Nodes : Join(p)
    \/ MainJoined
    \/ \E k \in 1..Len(draining) : FootnoteItem(k)
    \/ Return

----------------------------------------------------------------------------
(* The legacy synchronous renderer (markdown.ts) *)

LegacyKinds ==
    {"#text", "p", "h", "a", "img", "br", "blockquote", "em", "strong", "del", "pre",
     "code", "ol", "ul", "li", "table", "thead", "tbody", "tr", "th", "td", "checkbox",
     "hr", "fn-ref", "fn-def", "html"}

(* document.createElement(...) of each case; 'tbody' creates a thead element *)
LegacyTagOf(t) ==
    CASE t = "tbody" -> "thead"
      [] t = "checkbox" -> "input"
      [] t = "fn-ref" -> "sup"
      [] OTHER -> t

(* ParseTreeRenderer.tableAlign(): aligns[index] unless aligns.length >= index *)
tableAlign(tbl) ==
    IF ~tbl.set THEN AlignNull
    ELSE IF Len(tbl.aligns) >= tbl.index THEN AlignNull
    ELSE IF tbl.index + 1 \in DOMAIN tbl.aligns THEN tbl.aligns[tbl.index + 1]
    ELSE "undefined"

Reverse(s) == [i \in 1..Len(s) |-> s[Len(s) + 1 - i]]

RECURSIVE innerHTML(_)
(* the serialisation of a sequence of DOM nodes *)
innerHTML(nodes) ==
    IF nodes = <<>> THEN <<>>
    ELSE (IF Head(nodes).tag = "#text" THEN Head(nodes).text
          ELSE <<"<", Head(nodes).tag, ">">> \o innerHTML(Head(nodes).c)
               \o <<"</", Head(nodes).tag, ">">>)
         \o innerHTML(Tail(nodes))

(* new ParseTreeRenderer(), with the child list of the parent being filled *)
NewRenderer == [out |-> <<>>, table |-> NoTable, footNotes |-> <<>>, threw |-> FALSE]

RECURSIVE legacyRender(_, _), legacyRenderAll(_, _)
(* `for (const child of ...) this.render(child, parent)` *)
legacyRenderAll(forest, st) ==
    IF forest = <<>> THEN st
    ELSE legacyRenderAll(Tail(forest), legacyRender(Head(forest), st))

(* ParseTreeRenderer.render(elem, parent); st.out is the child list of parent *)
legacyRender(elem, st) ==
    CASE elem.t = "#text" -> [st EXCEPT !.out = Append(@, Str(elem.text))]
      [] elem.t = "img" ->
           LET tmp == legacyRenderAll(elem.c, [st EXCEPT !.out = <<>>]) IN
           [tmp EXCEPT !.out =
               Append(st.out, [El("img", NoKey) EXCEPT !.text = innerHTML(tmp.out)])]
      [] elem.t = "fn-def" -> [st EXCEPT !.footNotes = Append(@, elem)]
      [] elem.t = "html" ->
           [st EXCEPT !.out = @ \o Reverse([i \in 1..Len(elem.text) |-> Str(<<elem.text[i]>>)])]
      [] elem.t = "fn-ref" ->
           [st EXCEPT !.out = Append(@,
               [El("sup", NoKey) EXCEPT
                   !.c = <<[El("a", NoKey) EXCEPT
                              !.href = Anchor("#user-content-fn-", elem.id),
                              !.id = Anchor("user-content-fnref-", elem.id)]>>])]
      [] elem.t \in LegacyKinds \ {"#text", "img", "fn-def", "html", "fn-ref"} ->
           LET entered == [st EXCEPT !.table = TableAfter(@, elem), !.out = <<>>]
               inner == legacyRenderAll(elem.c, entered)
           IN [inner EXCEPT !.out =
                  Append(st.out, [El(LegacyTagOf(elem.t), NoKey) EXCEPT !.c = inner.out])]
      [] OTHER -> st

(* the link of end(): its href has no '#' *)
LegacyBackref(id) ==
    [El("a", NoKey) EXCEPT
        !.href = Anchor("user-content-fnref-", id), !.cls = "data-footnote-backref"]

(* (li.lastChild ?? li).appendChild(a): a Text node cannot have children, so   *)
(* appendChild throws HierarchyRequestError when the last child is a text     *)
LegacyBackrefThrows(children) ==
    children # <<>> /\ children[Len(children)].tag = "#text"

LegacyWithBackref(children, a) ==
    IF children = <<>> THEN <<a>>
    ELSE [children EXCEPT ![Len(children)].c = Append(@, a)]

RECURSIVE legacyItems(_, _, _)
(* `for (const elem of this.footNotes)` of end(), from the k-th on: the loop  *)
(* also reaches the definitions pushed while it runs                          *)
legacyItems(k, st, lis) ==
    IF k > Len(st.footNotes) THEN [st EXCEPT !.out = lis]
    ELSE LET elem == st.footNotes[k]
             body == legacyRenderAll(elem.c, [st EXCEPT !.out = <<>>])
         IN IF LegacyBackrefThrows(body.out)
            THEN [body EXCEPT !.out = lis, !.threw = TRUE]
            ELSE legacyItems(k + 1, body,
                    Append(lis, [El("li", NoKey) EXCEPT
                                    !.id = Anchor("user-content-fn-", elem.id),
                                    !.c = LegacyWithBackref(body.out, LegacyBackref(elem.id))]))

(* ParseTreeRenderer.end(parent); st.out is the child list of parent *)
legacyEnd(st) ==
    IF st.footNotes = <<>> THEN st
    ELSE LET done == legacyItems(1, st, <<>>) IN
         IF done.threw THEN [done EXCEPT !.out = st.out]
         ELSE [done EXCEPT !.out =
                  Append(st.out,
                      [El("section", NoKey) EXCEPT
                          !.cls = "footnotes",
                          !.c = <<[El("h2", NoKey) EXCEPT
                                      !.id = Anchor("footnote-label", 0),
                                      !.cls = "sr-only"],
                                  [El("ol", NoKey) EXCEPT !.c = done.out]>>])]

----------------------------------------------------------------------------
(* The reducer (reducer.ts) *)

MaxIndex == 1
MaxCalls == 3
MaxEvents == 2

(* searchIndex: null *)
NoIndex == -1
Indices == 0..MaxIndex
Matchers == {"SmartCase", "CaseSensitive"}

INITIAL_STATE ==
    [searching |-> FALSE, searchIndex |-> NoIndex, matcher |-> "SmartCase",
     previewing |-> TRUE, outline |-> FALSE, theme |-> "light"]

(* an Action: the fields that its kind does not have keep these values *)
Act(kind) ==
    [kind |-> kind, index |-> NoIndex, matcher |-> "SmartCase", previewing |-> FALSE,
     open |-> FALSE, theme |-> "light"]

NoAction == Act("")

(* the action creators; next is what searchNextIndex / searchPreviousIndex of *)
(* './search' returns for the index                                           *)
openSearch == Act("open_search")
closeSearch == Act("close_search")
searchIndex(index) == [Act("search_index") EXCEPT !.index = index]
searchNext(index, next) == searchIndex(next)
searchPrevious(index, next) == searchIndex(next)
setSearchMatcher(matcher) == [Act("search_matcher") EXCEPT !.matcher = matcher]
setPreviewing(previewing) == [Act("previewing") EXCEPT !.previewing = previewing]
openOutline == [Act("outline") EXCEPT !.open = TRUE]
closeOutline == [Act("outline") EXCEPT !.open = FALSE]
setTheme(theme) == [Act("theme") EXCEPT !.theme = IF theme = "Dark" THEN "dark" ELSE "light"]

ActionKinds ==
    {"open_search", "close_search", "search_index", "search_matcher", "previewing",
     "outline", "theme"}

(* an index that is stored whether or not a search is open *)
searchIndexAlways(st, index) == [st EXCEPT !.searchIndex = index]
(* case 'search_index' *)
searchIndexCase(st, index) ==
    IF ~st.searching THEN st ELSE [st EXCEPT !.searchIndex = index]

(* a search that is opened again, without its index *)
openSearchAgain(st) == [st EXCEPT !.searching = TRUE, !.searchIndex = NoIndex]
(* case 'open_search' *)
openSearchCase(st) ==
    IF st.searching THEN st ELSE [st EXCEPT !.searching = TRUE, !.searchIndex = NoIndex]

(* case 'close_search' *)
closeSearchCase(st) == [st EXCEPT !.searching = FALSE, !.searchIndex = NoIndex]

(* a theme action that also closes the outline *)
themeCaseClosing(st, action) == [st EXCEPT !.theme = action.theme, !.outline = FALSE]
(* case 'theme' *)
themeCase(st, action) == [st EXCEPT !.theme = action.theme]

(* the default case throws *)
reducerThrows(action) == action.kind \notin ActionKinds

(* reducer(state, action), for an action of a known kind *)
reducer(st, action) ==
    CASE action.kind = "open_search" -> openSearchCase(st)
      [] action.kind = "close_search" -> closeSearchCase(st)
      [] action.kind = "search_index" -> searchIndexCase(st, action.index)
      [] action.kind = "search_matcher" -> [st EXCEPT !.matcher = action.matcher]
      [] action.kind = "previewing" -> [st EXCEPT !.previewing = action.previewing]
      [] action.kind = "outline" -> [st EXCEPT !.outline = action.open]
      [] action.kind = "theme" -> themeCase(st, action)

(* the actions that a component or the dispatcher can dispatch *)
Actions ==
    {openSearch, closeSearch, openOutline, closeOutline, Act("bogus")}
    \cup {searchIndex(i) : i \in Indices \cup {NoIndex}}
    \cup {setSearchMatcher(m) : m \in Matchers}
    \cup {setPreviewing(b) : b \in BOOLEAN}
    \cup {setTheme(t) : t \in {"Dark", "Light"}}

RECURSIVE reduceAll(_, _)
(* the state after the reducer has been called with each of the actions *)
reduceAll(st, actions) ==
    IF actions = <<>> THEN st
    ELSE reduceAll(IF reducerThrows(Head(actions)) THEN st ELSE reducer(st, Head(actions)),
                   Tail(actions))

NoReduced == [calls |-> 0, action |-> NoAction, by |-> ""]

(* the record of the reducer calls after the calls with these actions, which  *)
(* were dispatched by a component or by the dispatcher                        *)
reducedAfter(r, actions, by) ==
    IF actions = <<>> THEN r
    ELSE [calls |-> r.calls + Len(actions), action |-> actions[Len(actions)], by |-> by]

----------------------------------------------------------------------------
(* The dispatcher (GlobalDispatcher) *)

(* constructor: dispatch does nothing, state is INITIAL_STATE; handled counts  *)
(* the calls of the handlers, caught the runs of their catch blocks, raised    *)
(* tells whether the last call ran its catch block, threw whether a call has   *)
(* thrown to its caller                                                        *)
NewDispatcher ==
    [state |-> INITIAL_STATE, connected |-> FALSE, threw |-> FALSE, handled |-> 0,
     caught |-> 0, raised |-> FALSE]

(* a call in a handler: a dispatch of an action, or a call of something else  *)
(* (content.render, Mousetrap.bind, window.scrollBy, sendMessage, log)        *)
Dispatched(action) == [ext |-> FALSE, action |-> action]
External == [ext |-> TRUE, action |-> NoAction]

(* searchNext() / searchPrev(): they read the dispatcher's copy of the state *)
dispatcherSearchNext(d, next) ==
    IF d.state.searching THEN <<Dispatched(searchNext(d.state.searchIndex, next))>> ELSE <<>>
dispatcherSearchPrev(d, next) ==
    IF d.state.searching THEN <<Dispatched(searchPrevious(d.state.searchIndex, next))>>
    ELSE <<>>

MessageKinds ==
    {"render_tree", "config", "search", "search_next", "search_previous", "outline",
     "welcome", "debug", "bogus"}

(* the calls that handleIpcMessage makes for a message, in their order *)
MessageCalls(kind, d, next, theme, matcher) ==
    CASE kind = "render_tree" -> <<External, Dispatched(setPreviewing(TRUE))>>
      [] kind = "config" ->
           <<External, External, Dispatched(setTheme(theme)),
             Dispatched(setSearchMatcher(matcher))>>
      [] kind = "search" -> <<Dispatched(openSearch)>>
      [] kind = "search_next" -> dispatcherSearchNext(d, next)
      [] kind = "search_previous" -> dispatcherSearchPrev(d, next)
      [] kind = "outline" -> <<Dispatched(openOutline)>>
      [] kind = "welcome" -> <<Dispatched(setPreviewing(FALSE))>>
      [] kind = "debug" -> <<External, External>>
      [] OTHER -> <<External>>

KeyActions ==
    {"ScrollDown", "Reload", "Search", "SearchNext", "SearchPrev", "NextSection",
     "Outline", "Quit", "Bogus"}

(* the calls that handleKeyAction makes for a key action *)
KeyActionCalls(action, d, next) ==
    CASE action = "Search" -> <<Dispatched(openSearch)>>
      [] action = "SearchNext" -> dispatcherSearchNext(d, next)
      [] action = "SearchPrev" -> dispatcherSearchPrev(d, next)
      [] action = "Outline" -> <<Dispatched(openOutline)>>
      [] OTHER -> <<External>>

(* the actions that reach the reducer when the first raised calls complete:   *)
(* before setDispatch, this.dispatch does nothing                             *)
Reaching(calls, completed, d) ==
    IF ~d.connected THEN <<>>
    ELSE LET made == SubSeq(calls, 1, completed)
             at == {i \in 1..Len(made) : ~made[i].ext}
             nth(k) == CHOOSE i \in at : Cardinality({j \in at : j < i}) = k - 1
         IN [k \in 1..Cardinality(at) |-> made[nth(k)].action]

(* a handler without the try/catch: what was raised leaves it *)
escapesUncaught(raised) == raised
(* try { ... } catch (err) { log.error(...) }: nothing raised inside leaves *)
escapes(raised) == FALSE

----------------------------------------------------------------------------
(* The key mapping (keymaps.ts) *)

MaxBinds == 2
MaxRegisters == 2

(* some of the keys of KeyShortcuts, in ascending order of localeCompare *)
ShortcutNames == <<"Back", "Outline", "Search", "SearchNext">>
(* names that every object inherits from Object.prototype *)
InheritedNames == {"constructor"}
Keybinds == {"j", "ctrl+f", "g g"}

Range(f) == {f[i] : i \in DOMAIN f}

(* `action in KeyShortcuts`: own and inherited properties *)
InKeyShortcuts(action) == action \in Range(ShortcutNames) \cup InheritedNames

(* `shortcut.dispatch.bind(...)` throws when KeyShortcuts[action] is not one  *)
(* of the shortcuts of the table: its dispatch is undefined                   *)
BindThrows(action) == action \notin Range(ShortcutNames)

(* l.action.localeCompare(r.action) < 0 *)
ActionBefore(l, r) ==
    \E i, j \in DOMAIN ShortcutNames : i < j /\ ShortcutNames[i] = l /\ ShortcutNames[j] = r

(* bounds after the keybind of one entry of maps: a new BoundShortcut at the  *)
(* end of the Map, or the keybind pushed to the action's binds                *)
boundsSet(bounds, action, keybind) ==
    IF \E k \in 1..Len(bounds) : bounds[k].action = action
    THEN [k \in 1..Len(bounds) |->
             IF bounds[k].action = action
             THEN [bounds[k] EXCEPT !.binds = Append(@, keybind)] ELSE bounds[k]]
    ELSE Append(bounds, [action |-> action, binds |-> <<keybind>>, shortcut |-> action])

RECURSIVE registerLoop(_, _)
(* `for (const keybind of Object.keys(maps))`, maps given in the order of its *)
(* keys: the Map it builds, and whether it threw                              *)
registerLoop(maps, bounds) ==
    IF maps = <<>> THEN [bounds |-> bounds, threw |-> FALSE]
    ELSE LET keybind == Head(maps).keybind
             action == Head(maps).action
         IN IF ~InKeyShortcuts(action) THEN registerLoop(Tail(maps), bounds)
            ELSE IF BindThrows(action) THEN [bounds |-> bounds, threw |-> TRUE]
            ELSE registerLoop(Tail(maps), boundsSet(bounds, action, keybind))

(* shortcuts.sort((l, r) => l.action.localeCompare(r.action)) *)
sortedByAction(shortcuts) ==
    [k \in 1..Len(shortcuts) |->
        shortcuts[CHOOSE i \in 1..Len(shortcuts) :
            Cardinality({j \in 1..Len(shortcuts) :
                ActionBefore(shortcuts[j].action, shortcuts[i].action)}) = k - 1]]

(* new KeyMapping(); maps is the argument of the last register() call *)
NewKeyMapping == [shortcuts |-> <<>>, calls |-> 0, threw |-> FALSE, maps |-> <<>>]

(* the value of a KeyMaps object: keybind/action pairs in the order of        *)
(* Object.keys, every keybind once                                            *)
KeyMapsOf(n) ==
    {m \in [1..n -> [keybind : Keybinds,
                     action : Range(ShortcutNames) \cup InheritedNames \cup {"Bogus"}]] :
        \A i, j \in 1..n : i # j => m[i].keybind # m[j].keybind}

InitUi ==
    /\ state = INITIAL_STATE
    /\ reduced = NoReduced
    /\ dispatcher = NewDispatcher
    /\ keymapping = NewKeyMapping

(* what does not belong to the reducer, the dispatcher and the key mapping *)
rendering ==
    <<tree, pc, agenda, status, fence, shell, results, table, footNotes, matchCount,
      lastModifiedRef, refs, draining, items, drains, result, mount, preview, rootElem,
      renderer, renders, previous, other>>

(* a component calls dispatch(action): React calls the reducer with it *)
Dispatch(action) ==
    /\ reduced.calls < MaxCalls
    /\ state' = reduceAll(state, <<action>>)
    /\ reduced' = reducedAfter(reduced, <<action>>, "component")
    /\ UNCHANGED <<dispatcher, keymapping, rendering>>

(* the component renders and hands its dispatch and state to the dispatcher *)
SetDispatch ==
    /\ dispatcher' = [dispatcher EXCEPT !.state = state, !.connected = TRUE]
    /\ UNCHANGED <<state, reduced, keymapping, rendering>>

(* handleIpcMessage(msg); one of its calls may raise, after `completed` calls *)
HandleIpcMessage(kind, completed, next, theme, matcher) ==
    /\ dispatcher.handled < MaxEvents
    /\ reduced.calls < MaxCalls
    /\ LET calls == MessageCalls(kind, dispatcher, next, theme, matcher)
           actions == Reaching(calls, completed, dispatcher)
       IN /\ completed \in 0..Len(calls)
          /\ state' = reduceAll(state, actions)
          /\ reduced' = reducedAfter(reduced, actions, "dispatcher")
          /\ dispatcher' = [dispatcher EXCEPT
                               !.handled = @ + 1,
                               !.caught = IF completed < Len(calls) THEN @ + 1 ELSE @,
                               !.raised = completed < Len(calls),
                               !.threw = @ \/ escapes(completed < Len(calls))]
    /\ UNCHANGED <<keymapping, rendering>>

(* a key shortcut bound by the 'config' message fires: handleKeyAction inside *)
(* the callback's own try/catch                                               *)
HandleKeyAction(action, completed, next) ==
    /\ dispatcher.handled < MaxEvents
    /\ reduced.calls < MaxCalls
    /\ LET calls == KeyActionCalls(action, dispatcher, next)
           actions == Reaching(calls, completed, dispatcher)
       IN /\ completed \in 0..Len(calls)
          /\ state' = reduceAll(state, actions)
          /\ reduced' = reducedAfter(reduced, actions, "dispatcher")
          /\ dispatcher' = [dispatcher EXCEPT
                               !.handled = @ + 1,
                               !.caught = IF completed < Len(calls) THEN @ + 1 ELSE @,
                               !.raised = completed < Len(calls),
                               !.threw = @ \/ escapes(completed < Len(calls))]
    /\ UNCHANGED <<keymapping, rendering>>

(* KeyMapping.register(maps, dispatcher) *)
Register(maps) ==
    /\ keymapping.calls < MaxRegisters
    /\ LET loop == registerLoop(maps, <<>>) IN
       keymapping' =
          [shortcuts |-> IF loop.threw THEN keymapping.shortcuts
                         ELSE sortedByAction(loop.bounds),
           calls |-> keymapping.calls + 1,
           threw |-> loop.threw,
           maps |-> maps]
    /\ UNCHANGED <<state, reduced, dispatcher, rendering>>

MaxRenders == 2

InitOuter ==
    /\ mount = TRUE
    /\ preview = "none"
    /\ rootElem = <<>>
    /\ renderer = NewRenderer
    /\ renders = 0
    /\ previous = NoPrevious
    /\ other = NoOther
    /\ InitUi

(* a constructor that keeps whatever getElementById returned *)
constructedUnchecked(root) == "mounted"
(* the constructor's outcome for what document.getElementById returned *)
constructed(root) == IF root THEN "mounted" ELSE "threw"

(* new PreviewContent(): throws when document.getElementById finds nothing *)
NewPreviewContent ==
    /\ preview = "none"
    /\ preview' = constructed(mount)
    /\ UNCHANGED <<tree, pc, agenda, status, fence, shell, results, table, footNotes,
                   matchCount, lastModifiedRef, refs, draining, items, drains, result,
                   mount, rootElem, renderer, renders, previous, other, ui>>

(* a root that keeps the nodes of the render before *)
textContentKept(root) == root
(* `this.rootElem.textContent = ''`: the root's child nodes are removed *)
textContentCleared(root) == <<>>

(* PreviewContent.render(tree): the root is emptied, a new ParseTreeRenderer  *)
(* renders every element into it, then end() adds the footnotes               *)
PreviewRender ==
    /\ preview = "mounted"
    /\ renders < MaxRenders
    /\ renders' = renders + 1
    /\ renderer' = legacyEnd(legacyRenderAll(tree,
                       [NewRenderer EXCEPT !.out = textContentCleared(rootElem)]))
    /\ rootElem' = renderer'.out
    /\ UNCHANGED <<tree, pc, agenda, status, fence, shell, results, table, footNotes,
                   matchCount, lastModifiedRef, refs, draining, items, drains, result,
                   mount, preview, previous, other, ui>>

NextLegacy ==
    \/ NewPreviewContent
    \/ PreviewRender

----------------------------------------------------------------------------
(* Inputs *)

MaxNodes == 3
MaxMatches == 4
MaxRows == 2
MaxCols == 3

(* Kinds whose children render() may visit ('c' in elem) *)
CanNest(t) == t \in ContainerKinds \cup {"code", "fn-def", "img"} \/ t \notin KnownKinds

RECURSIVE TreesN(_, _), ForestsN(_, _)
(* every tree of exactly n nodes whose nodes are drawn from the heads H *)
TreesN(n, H) ==
    IF n = 1 THEN H
    ELSE {[h EXCEPT !.c = f] : h \in {x \in H : CanNest(x.t)}, f \in ForestsN(n - 1, H)}
(* every sequence of trees of n nodes in all *)
ForestsN(n, H) ==
    IF n = 0 THEN {<<>>}
    ELSE UNION {{<<t>> \o f : t \in TreesN(k, H), f \in ForestsN(n - k, H)} : k \in 1..n}

Forests(max, H) == UNION {ForestsN(n, H) : n \in 0..max}

RECURSIVE SeqsN(_, _)
SeqsN(n, S) ==
    IF n = 0 THEN {<<>>} ELSE {<<x>> \o s : x \in S, s \in SeqsN(n - 1, S)}
SeqsUpTo(max, S) == UNION {SeqsN(n, S) : n \in 0..max}

(* a pass that exercises every continuation: part of every input family *)
CommonTrees ==
    {<<Elem("p", <<Elem("code", <<Text("a")>>), Elem("math", <<>>)>>),
       FnDef(2, <<Elem("code", <<>>), Text("n")>>),
       Elem("code", <<FnDef(1, <<Text("m")>>)>>)>>}

OrderHeads == {Text("a"), Elem("code", <<>>), Elem("math", <<>>), Elem("p", <<>>),
               Elem("modified", <<>>)}
OrderTrees == Forests(MaxNodes, OrderHeads)

FootHeads == {Text("n"), FnDef(1, <<>>), FnDef(2, <<>>), Elem("code", <<>>),
              Elem("p", <<>>)}
FootTrees == Forests(MaxNodes, FootHeads)

MatchKinds == {"match", "match-current", "match-start", "match-current-start"}
MatchHeads == {Elem("match-start", <<>>), Elem("match", <<>>), Elem("img", <<>>),
               Elem("code", <<>>), FnDef(1, <<>>)}
MatchTrees ==
    SeqsUpTo(MaxMatches, {Elem(t, <<>>) : t \in MatchKinds}) \cup Forests(MaxNodes, MatchHeads)

AlignSeqs == {<<>>, <<"left">>, <<"left", AlignNull, "right">>, <<AlignNull, "center">>}
InnerAligns == <<"center", "right">>

(* a row of n cells; the j-th (if any) holds content *)
RowOf(kind, n, j, content) ==
    Elem("tr", [i \in 1..n |-> Elem(kind, IF i = j THEN content ELSE <<>>)])

(* a table of a header row and rows-1 body rows of n cells each; the j-th cell *)
(* of row r (if any) holds content                                            *)
TableOf(A, rows, n, r, j, content) ==
    TableElem(A,
        <<Elem("thead", <<RowOf("th", n, IF r = 1 THEN j ELSE 0, content)>>)>>
        \o (IF rows > 1
            THEN <<Elem("tbody", [k \in 1..(rows - 1) |->
                       RowOf("td", n, IF r = k + 1 THEN j ELSE 0, content)])>>
            ELSE <<>>))

InnerTable == TableElem(InnerAligns, <<RowOf("td", 2, 0, <<>>)>>)

CellContents ==
    {<<Elem("code", <<Text("x")>>)>>, <<Elem("math", <<>>)>>,
     <<InnerTable>>, <<Elem("code", <<InnerTable>>)>>}

(* the alignment sequences of the tables that have a cell with content *)
ContentAligns == {<<"left", AlignNull, "right">>, <<AlignNull, "center">>}

(* one table, plain or with one cell that has content (a fence, math, a nested *)
(* table, a nested table in a fence), or two tables in sequence                *)
TableTrees ==
    UNION {
        {<<TableOf(A, rows, n, 0, 0, <<>>)>>,
         <<TableOf(A, rows, n, 0, 0, <<>>), InnerTable>>,
         <<InnerTable, TableOf(A, rows, n, 0, 0, <<>>)>>}
        \cup {<<TableOf(B, rows, n, r, j, content)>> :
                 B \in ContentAligns, r \in 1..rows, j \in 1..n, content \in CellContents} :
        A \in AlignSeqs, rows \in 1..MaxRows, n \in 1..MaxCols}
    \cup {<<TableOf(B, 1, 2, 1, 2, <<InnerTable>>), TableOf(<<"right">>, 1, 1, 0, 0, <<>>)>> :
            B \in ContentAligns}

Init == tree \in CommonTrees \cup OrderTrees /\ InitSession /\ InitOuter
Spec == Init /\ [][Next]_vars

InitFoot == tree \in CommonTrees \cup FootTrees /\ InitSession /\ InitOuter
SpecFoot == InitFoot /\ [][Next]_vars

InitMatch == tree \in CommonTrees \cup MatchTrees /\ InitSession /\ InitOuter
SpecMatch == InitMatch /\ [][Next]_vars

InitTable == tree \in CommonTrees \cup TableTrees /\ InitSession /\ InitOuter
SpecTable == InitTable /\ [][Next]_vars

StrayHeads ==
    {Elem("td", <<>>), Elem("th", <<>>), Elem("tr", <<>>), Elem("code", <<>>),
     TableElem(<<"right", "left">>, <<>>)}

(* small trees with cells outside any table, before and after a table *)
StrayTrees == Forests(MaxNodes, StrayHeads)

InitStray == tree \in CommonTrees \cup StrayTrees /\ InitSession /\ InitOuter
SpecStray == InitStray /\ [][Next]_vars

OverlapHeads ==
    {Elem("math", <<>>), TableElem(<<"right">>, <<>>), Elem("td", <<>>),
     Elem("match-start", <<>>), FnDef(1, <<>>), Elem("modified", <<>>)}

(* the trees of the first call: small ones, and two with a table before the   *)
(* node that suspends                                                         *)
OverlapTrees ==
    Forests(MaxNodes - 1, OverlapHeads)
    \cup {<<TableElem(<<"right", "left">>, <<Elem("tr", <<Elem("td", <<>>)>>)>>),
             Elem("math", <<>>), Elem("td", <<>>)>>,
           <<Elem("match-start", <<>>), FnDef(1, <<Elem("modified", <<>>)>>),
             Elem("code", <<Text("x")>>)>>}

(* the trees of the second call: none of their nodes suspends *)
OtherTrees ==
    {<<Elem("td", <<>>)>>,
     <<TableElem(<<"left">>, <<Elem("tr", <<Elem("td", <<>>), Elem("td", <<>>)>>)>>),
       Elem("match-start", <<>>)>>,
     <<FnDef(2, <<Elem("modified", <<>>), Elem("p", <<>>)>>), Elem("modified", <<>>)>>,
     <<Elem("match-start", <<Elem("match-start", <<>>)>>), Elem("th", <<>>)>>}

InitOverlap == tree \in CommonTrees \cup OverlapTrees /\ InitSession /\ InitOuter

NextOverlap ==
    \/ Run
    \/ Render
    \/ \E p \in Nodes, r \in FenceResults : FenceSettle(p, r)
    \/ \E p \in Nodes : MathSettle(p)
    \/ \E p \in Nodes : FenceReject(p)
    \/ \E p \in Nodes : MathReject(p)
    \/ \E p \in Nodes : Join(p)
    \/ MainJoined
    \/ \E k \in 1..Len(draining) : FootnoteItem(k)
    \/ Return
    \/ \E t \in OtherTrees : OtherRun(t)
    \/ OtherFootnotes
    \/ OtherReturn

SpecOverlap == InitOverlap /\ [][NextOverlap]_vars

(* the shapes of a footnote body's last child: a text leaf, elements without  *)
(* children, with one child, with several, a reference to another footnote    *)
BackrefHeads ==
    {Text("note"), Elem("br", <<>>), Elem("p", <<>>), Elem("h", <<>>),
     FnRef(2)}

BackrefTrees == {<<FnDef(1, body)>> : body \in Forests(MaxNodes, BackrefHeads)}

InitBackref == tree \in CommonTrees \cup BackrefTrees /\ InitSession /\ InitOuter

(* both renderers on one input: the legacy one first *)
NextBackref ==
    \/ pc = "new" /\ NewPreviewContent
    \/ pc = "new" /\ PreviewRender
    \/ Run
    \/ Render
    \/ \E p \in Nodes, r \in FenceResults : FenceSettle(p, r)
    \/ \E p \in Nodes : MathSettle(p)
    \/ \E p \in Nodes : FenceReject(p)
    \/ \E p \in Nodes : MathReject(p)
    \/ \E p \in Nodes : Join(p)
    \/ MainJoined
    \/ \E k \in 1..Len(draining) : FootnoteItem(k)
    \/ Return

SpecBackref == InitBackref /\ [][NextBackref]_vars

(* trees in which nodes that update a tracker are children of code nodes *)
AgainTrees ==
    {<<Elem("code", a), Elem("code", b)>> :
        a, b \in {<<>>, <<FnDef(1, <<>>)>>, <<FnDef(2, <<>>)>>, <<Elem("td", <<>>)>>,
                  <<TableElem(<<"right">>, <<>>)>>, <<Elem("match-start", <<>>)>>}}

InitAgain == tree \in CommonTrees \cup AgainTrees /\ InitSession /\ InitOuter

(* a pass, and after it a second call with the same tree *)
NextAgain ==
    \/ Run
    \/ Render
    \/ \E p \in Nodes, r \in FenceResults : FenceSettle(p, r)
    \/ \E p \in Nodes : MathSettle(p)
    \/ \E p \in Nodes : FenceReject(p)
    \/ \E p \in Nodes : MathReject(p)
    \/ \E p \in Nodes : Join(p)
    \/ MainJoined
    \/ \E k \in 1..Len(draining) : FootnoteItem(k)
    \/ Return
    \/ RenderAgain(tree)

SpecAgain == InitAgain /\ [][NextAgain]_vars

(* the legacy renderer alone, in a document with or without 'preview-root' *)
InitLegacy ==
    /\ tree \in CommonTrees \cup TableTrees
    /\ InitSession
    /\ mount \in BOOLEAN
    /\ preview = "none"
    /\ rootElem = <<>>
    /\ renderer = NewRenderer
    /\ renders = 0
    /\ previous = NoPrevious
    /\ other = NoOther
    /\ InitUi

SpecLegacy == InitLegacy /\ [][NextLegacy]_vars

(* the trees of a later call: a cell outside a table, a definition, a heading *)
LaterTrees ==
    {<<Elem("td", <<>>)>>,
     <<FnDef(2, <<Text("n")>>), Elem("match-start", <<>>)>>,
     <<Elem("h", <<Text("a"), Text("b")>>)>>}

InitSequence == tree \in CommonTrees \cup OverlapTrees /\ InitSession /\ InitOuter

(* calls one after the other, on different trees: the legacy render() while   *)
(* no asynchronous pass is under way, and a second asynchronous call once the *)
(* first has ended                                                            *)
NextSequence ==
    \/ pc = "new" /\ NewPreviewContent
    \/ pc = "new" /\ PreviewRender
    \/ Run
    \/ Render
    \/ \E p \in Nodes, r \in FenceResults : FenceSettle(p, r)
    \/ \E p \in Nodes : MathSettle(p)
    \/ \E p \in Nodes : FenceReject(p)
    \/ \E p \in Nodes : MathReject(p)
    \/ \E p \in Nodes : Join(p)
    \/ MainJoined
    \/ \E k \in 1..Len(draining) : FootnoteItem(k)
    \/ Return
    \/ \E t \in LaterTrees : RenderAgain(t)

SpecSequence == InitSequence /\ [][NextSequence]_vars

(* raw markup of up to MaxNodes top-level nodes, after up to one other node *)
HtmlTrees ==
    {before \o <<[Elem("html", <<>>) EXCEPT !.text = raw]>> :
        before \in {<<>>, <<Text("a")>>, <<Elem("p", <<Text("a")>>)>>, <<Elem("hr", <<>>)>>},
        raw \in SeqsUpTo(MaxNodes, {"x", "<b>y</b>", "<i>z</i>"})}

InitHtml == tree \in HtmlTrees /\ InitSession /\ InitOuter
SpecHtml == InitHtml /\ [][NextLegacy]_vars

(* the values of what only some messages and key actions carry or compute:   *)
(* one value for the others                                                   *)
NextIndices(searches) == IF searches = {} THEN {NoIndex} ELSE Indices \cup {NoIndex}
Themes(configs) == IF configs = {} THEN {"Light"} ELSE {"Dark", "Light"}
MatchersOf(configs) == IF configs = {} THEN {"SmartCase"} ELSE Matchers

InitWindow == tree = <<>> /\ InitSession /\ InitOuter

(* the reducer under every sequence of actions, and the dispatcher's events *)
NextWindow ==
    \/ \E action \in Actions : Dispatch(action)
    \/ SetDispatch
    \/ \E kind \in MessageKinds, completed \in 0..4 :
          \E next \in NextIndices({kind} \cap {"search_next", "search_previous"}),
             theme \in Themes({kind} \cap {"config"}),
             matcher \in MatchersOf({kind} \cap {"config"}) :
             HandleIpcMessage(kind, completed, next, theme, matcher)
    \/ \E action \in KeyActions, completed \in 0..1 :
          \E next \in NextIndices({action} \cap {"SearchNext", "SearchPrev"}) :
             HandleKeyAction(action, completed, next)

SpecWindow == InitWindow /\ [][NextWindow]_vars

NextKeys == \E n \in 0..MaxBinds : \E maps \in KeyMapsOf(n) : Register(maps)

SpecKeys == InitWindow /\ [][NextKeys]_vars

RECURSIVE Prune(_, _)
(* the forest without the nodes (and their subtrees) whose kind is not in K *)
Prune(forest, K) ==
    IF forest = <<>> THEN <<>>
    ELSE (IF Head(forest).t \in K
          THEN <<[Head(forest) EXCEPT !.c = Prune(Head(forest).c, K)]>>
          ELSE <<>>)
         \o Prune(Tail(forest), K)

UnknownHeads ==
    {Elem("bogus-future-kind", <<>>), Elem("p", <<>>), FnDef(1, <<>>), Text("a"),
     Elem("match-start", <<>>)}

(* small trees with nodes of an unknown kind, and a row with one between its cells *)
UnknownTrees ==
    Forests(MaxNodes, UnknownHeads)
    \cup {<<TableElem(<<"left", "right">>,
              <<Elem("tr", <<Elem("td", <<>>),
                             Elem("bogus-future-kind", <<Elem("td", <<>>)>>),
                             Elem("td", <<>>)>>)>>)>>}

InitUnknown == tree \in CommonTrees \cup UnknownTrees /\ InitSession /\ InitOuter

(* both renderers on one input: the legacy one first, then the asynchronous   *)
(* one, and once it has ended again on the input without the unknown nodes    *)
NextUnknown ==
    \/ pc = "new" /\ ~previous.taken /\ NewPreviewContent
    \/ pc = "new" /\ ~previous.taken /\ PreviewRender
    \/ Run
    \/ Render
    \/ \E p \in Nodes, r \in FenceResults : FenceSettle(p, r)
    \/ \E p \in Nodes : MathSettle(p)
    \/ \E p \in Nodes : FenceReject(p)
    \/ \E p \in Nodes : MathReject(p)
    \/ \E p \in Nodes : Join(p)
    \/ MainJoined
    \/ \E k \in 1..Len(draining) : FootnoteItem(k)
    \/ Return
    \/ RenderAgain(Prune(tree, KnownKinds))

SpecUnknown == InitUnknown /\ [][NextUnknown]_vars

----------------------------------------------------------------------------
(* Observations shared by the properties *)

Slot(p) == results[Parent(p)][Idx(p)]
Delivered(p) == Idx(p) <= Len(results[Parent(p)]) /\ Slot(p) # Pending

(* v is what render() returns for the node at path p, judged by the node's own *)
(* kind, text and key (not by its descendants)                                 *)
Renders(v, p) ==
    LET elem == At(tree, p) IN
    CASE elem.t = "#text" -> v.tag = "#text" /\ v.text = elem.text
      [] elem.t \in ContainerKinds ->
           v.tag = TagOf(elem.t) /\ v.cls = ClassOf(elem.t) /\ v.key = KeyOf(p)
      [] elem.t = "code" -> v.tag \in {"code", "#fence", "#fragment"} /\ v.key = KeyOf(p)
      [] elem.t = "math" -> v.tag = "#math" /\ v.key = KeyOf(p)
      [] elem.t = "modified" -> v.cls = "last-modified-marker" /\ v.key = KeyOf(p)
      [] elem.t \in {"img", "br", "hr"} -> v.tag = elem.t /\ v.key = KeyOf(p)
      [] elem.t = "checkbox" -> v.tag = "input" /\ v.key = KeyOf(p)
      [] elem.t = "fn-ref" -> v.tag = "sup" /\ v.key = KeyOf(p)
      [] elem.t = "html" -> v.tag = "span" /\ v.key = KeyOf(p)
      [] OTHER -> v = Null

(* the node at p awaited renderAll(elem.c) and returned an element around it *)
RenderedChildren(p) ==
    /\ status[p] = "done"
    /\ \/ At(tree, p).t \in ContainerKinds
       \/ At(tree, p).t = "code" /\ fence[p] = "null"

----------------------------------------------------------------------------
(* C1: order preservation. Every filled slot i of every Promise.all result     *)
(* array (the top-level sequence, each container, each footnote body) holds    *)
(* the rendering of the i-th input child; a finished container's children are  *)
(* exactly that array, one entry per input child; and the blocks of the result *)
(* are the top-level array. This holds in every state, so for every order in   *)
(* which the fence and math renders complete.                                  *)
C1_OrderPreserved ==
    /\ \A q \in Nodes \cup {<<>>} : \A i \in 1..Len(results[q]) :
          results[q][i] # Pending => Renders(results[q][i], Append(q, i))
    /\ \A p \in Nodes :
          RenderedChildren(p) /\ Delivered(p) =>
             /\ Len(Slot(p).c) = Len(At(tree, p).c)
             /\ \A i \in 1..Len(Slot(p).c) : Renders(Slot(p).c[i], Append(p, i))
    /\ \A k \in 1..Len(items) :
          items[k] # Pending =>
             \A i \in 1..Len(At(tree, draining[k]).c) :
                Renders(items[k].c[i], Append(draining[k], i))
    /\ pc = "done" =>
          /\ Len(result.root.c[1].c) = Len(tree)
          /\ \A i \in 1..Len(tree) : Renders(result.root.c[1].c[i], <<i>>)

(* a later sibling's collaborator has completed while an earlier sibling is    *)
(* still pending: completion order differs from input order                    *)
C1_Witness ==
    \E q \in Nodes \cup {<<>>} :
       /\ Len(results[q]) >= 2
       /\ results[q][1] = Pending
       /\ results[q][2] # Pending
       /\ At(tree, Append(q, 1)).t \in {"code", "math"}
       /\ At(tree, Append(q, 2)).t \in {"code", "math"}

----------------------------------------------------------------------------
(* Footnotes *)

ProperAncestors(p) == {SubSeq(p, 1, n) : n \in 1..(Len(p) - 1)}
UnderFnDef(p) == \E q \in ProperAncestors(p) : At(tree, q).t = "fn-def"

(* render() never reaches p: an ancestor does not render its children *)
Skipped(p) ==
    \E q \in ProperAncestors(p) :
       ~ \/ At(tree, q).t \in ContainerKinds \cup {"fn-def"}
         \/ At(tree, q).t = "code" /\ fence[q] \in {"", "null"}

Footer == result.root.c[2]
TimesEmitted(p) == Cardinality({k \in 1..Len(items) : items[k] # Pending /\ draining[k] = p})

(* C2: the collector is read (drained) only after the main tree has joined:    *)
(* once it has been read, every top-level slot is filled and no node of the    *)
(* main tree is still awaiting a collaborator or its children; it is read at   *)
(* most once, and exactly once in a finished pass; the result is the blocks    *)
(* followed by the footnote section, which is null exactly when no definition  *)
(* was collected.                                                              *)
C2_FootnotesAfterMain ==
    /\ drains <= 1
    /\ pc \in {"new", "main"} => drains = 0
    /\ pc \in {"footnotes", "done"} => drains = 1
    /\ drains = 1 =>
          /\ Len(results[<<>>]) = Len(tree)
          /\ Joined(results[<<>>])
          /\ \A p \in Nodes :
                ~UnderFnDef(p) =>
                   /\ status[p] \in {"new", "done"}
                   /\ status[p] = "new" => Skipped(p)
    /\ pc = "done" =>
          /\ Len(result.root.c) = 2
          /\ result.root.c[1].c = results[<<>>]
          /\ (Footer = Null) <=> (footNotes = <<>>)
          /\ Footer # Null => Footer.tag = "section" /\ Footer.cls = "footnotes"

(* a finished pass with a footnote section whose main tree held a code node    *)
(* that waited for the fence collaborator                                      *)
C2_Witness ==
    /\ pc = "done"
    /\ Footer # Null
    /\ \E p \in Nodes : ~UnderFnDef(p) /\ At(tree, p).t = "code" /\ status[p] = "done"

(* C3, as claimed: every footnote definition at the top level, inside          *)
(* containers or inside the children of another footnote definition yields     *)
(* null at its own position and is emitted exactly once in the section.        *)
C3_EveryDefinitionEmittedOnce ==
    pc = "done" =>
       \A p \in Nodes :
          /\ At(tree, p).t = "fn-def"
          /\ \A q \in ProperAncestors(p) : At(tree, q).t \in ContainerKinds \cup {"fn-def"}
          => /\ Delivered(p) => Slot(p) = Null
             /\ TimesEmitted(p) = 1

(* C4: the k-th item of the footnote list is the k-th collected definition:    *)
(* it carries that definition's anchor and key k-1 and its children are the    *)
(* renderings of that definition's children; the list of the section is the    *)
(* item array.                                                                 *)
C4_ItemsInCollectionOrder ==
    /\ Len(items) = Len(draining)
    /\ Len(draining) <= Len(footNotes)
    /\ \A k \in 1..Len(draining) : draining[k] = footNotes[k]
    /\ \A k \in 1..Len(items) :
          items[k] # Pending =>
             /\ items[k].tag = "li"
             /\ items[k].key = k - 1
             /\ items[k].id = Anchor("user-content-fn-", At(tree, footNotes[k]).id)
             /\ \A i \in 1..Len(At(tree, footNotes[k]).c) :
                   Renders(items[k].c[i], Append(footNotes[k], i))
    /\ pc = "done" /\ Footer # Null => Footer.c[2].tag = "ol" /\ Footer.c[2].c = items

(* two items whose ids descend, the first with a body that waited for the      *)
(* fence collaborator, the second with none: the second body finished first    *)
C4_Witness ==
    /\ pc = "done"
    /\ Len(items) = 2
    /\ items[1].id[2] > items[2].id[2]
    /\ \E i \in 1..Len(At(tree, footNotes[1]).c) : At(tree, Append(footNotes[1], i)).t = "code"
    /\ \A i \in 1..Len(At(tree, footNotes[2]).c) : At(tree, Append(footNotes[2], i)).t # "code"

----------------------------------------------------------------------------
(* Search match counter *)

StartKinds == {"match-start", "match-current-start"}

RECURSIVE CountStarts(_)
(* the number of match-start and match-current-start nodes anywhere in a forest *)
CountStarts(forest) ==
    IF forest = <<>> THEN 0
    ELSE (IF Head(forest).t \in StartKinds THEN 1 ELSE 0)
         + CountStarts(Head(forest).c) + CountStarts(Tail(forest))

(* C5, as claimed: the matchCount of the result is the number of match-start   *)
(* and match-current-start nodes occurring anywhere in the input tree.         *)
C5_CountsEveryStart == pc = "done" => result.matchCount = CountStarts(tree)

(* C6: the counter is 0 before the pass; a step changes it only by rendering a *)
(* match-start or match-current-start node, and then by exactly +1; rendering  *)
(* any other kind, and every continuation, leaves it unchanged.                *)
C6_CounterSteps ==
    /\ [](pc = "new" => matchCount = 0)
    /\ [][IF agenda # <<>> /\ At(tree, Head(agenda)).t \in StartKinds
          THEN matchCount' = matchCount + 1
          ELSE matchCount' = matchCount]_vars

(* the pass over [match-start, match, match-current-start, match] returned 2 *)
C6_Witness ==
    /\ pc = "done"
    /\ tree = <<Elem("match-start", <<>>), Elem("match", <<>>),
                Elem("match-current-start", <<>>), Elem("match", <<>>)>>
    /\ result.matchCount = 2


----------------------------------------------------------------------------
(* Tables *)

EnclosingTables(p) == {q \in ProperAncestors(p) : At(tree, q).t = "table"}

(* the nearest enclosing table of a node that has one *)
NearestTable(p) ==
    CHOOSE q \in EnclosingTables(p) : \A r \in EnclosingTables(p) : Len(r) <= Len(q)

(* a th or td that is the child of a row inside a table *)
IsCell(p) ==
    /\ Len(p) >= 2
    /\ At(tree, p).t \in CellKinds
    /\ At(tree, Parent(p)).t = "tr"
    /\ EnclosingTables(p) # {}

(* the number of cells before p in its row *)
ColumnOf(p) ==
    Cardinality({i \in 1..(Idx(p) - 1) : At(tree, Append(Parent(p), i)).t \in CellKinds})

(* A[k] when k is within A and A[k] is not null (k counted from 0) *)
ExpectedAlign(A, k) == IF k < Len(A) /\ A[k + 1] # AlignNull THEN A[k + 1] ELSE NoStyle

CellRendered(p) == status[p] \in {"children", "done"}

(* the style given to the cell, and kept by the element that is returned *)
AlignedBy(T, p) ==
    /\ shell[p].style = ExpectedAlign(At(tree, T).align, ColumnOf(p))
    /\ status[p] = "done" /\ Delivered(p) => Slot(p).style = shell[p].style

(* the row of p is a well-formed row of table T: no code-fence container       *)
(* between T and p, and no row or cell nested inside an earlier cell of the    *)
(* row other than through a table                                              *)
WellFormedRow(T, p) ==
    /\ \A q \in ProperAncestors(p) : IsPrefix(T, q) => At(tree, q).t # "code"
    /\ \A q \in Nodes :
          /\ Len(q) > Len(p) /\ IsPrefix(Parent(p), q)
          /\ Before(q, p)
          /\ At(tree, q).t \in CellKinds \cup {"tr"}
          => \E r \in ProperAncestors(q) : Len(r) > Len(p) /\ At(tree, r).t = "table"

Tables == {q \in Nodes : At(tree, q).t = "table"}

(* those of the tables S that are strictly inside table T *)
TablesInside(S, T) == {q \in S : Len(q) > Len(T) /\ IsPrefix(T, q)}

C8_CellsAlignedByNearestTable ==
    \A p \in Nodes :
       CellRendered(p) /\ IsCell(p) =>
          \A T \in {NearestTable(p)} : WellFormedRow(T, p) => AlignedBy(T, p)

(* C8, amended: the same, for the cells that no table inside their nearest     *)
(* enclosing table precedes in document order (all cells of sequential tables  *)
(* and of a nested table; the cells of an outer table up to the nested one).   *)
C8_CellsAlignedUpToNestedTable ==
    \A S \in {Tables} : \A p \in Nodes :
       CellRendered(p) /\ IsCell(p) =>
          \A T \in {NearestTable(p)} :
             /\ \A q \in TablesInside(S, T) : ~Before(q, p)
             /\ WellFormedRow(T, p)
             => AlignedBy(T, p)

(* a finished pass in which a cell of a table nested in another table, and a   *)
(* cell of the second of two sequential tables, got an alignment of their own  *)
(* table that the other table does not give at that column                     *)
C8_Witness ==
    /\ pc = "done"
    /\ \E p \in Nodes :
          /\ IsCell(p) /\ status[p] = "done" /\ AlignedBy(NearestTable(p), p)
          /\ shell[p].style # NoStyle
          /\ \E T \in EnclosingTables(p) :
                /\ T # NearestTable(p)
                /\ ExpectedAlign(At(tree, T).align, ColumnOf(p)) # shell[p].style
    /\ \E p \in Nodes :
          /\ IsCell(p) /\ status[p] = "done" /\ AlignedBy(NearestTable(p), p)
          /\ shell[p].style # NoStyle
          /\ p[1] = 2
          /\ At(tree, <<1>>).t = "table"
          /\ ExpectedAlign(At(tree, <<1>>).align, ColumnOf(p)) # shell[p].style

(* C9: entering a table sets the alignment sequence to the table's and the     *)
(* cursor to 0; entering a row sets the cursor to 0 if a table state exists;   *)
(* entering a header or data cell reads the alignment and then advances the    *)
(* cursor by 1 if a table state exists; every other step, the completion of a  *)
(* table included, leaves the table state as it is.                            *)
C9_TableTrackerSteps ==
    [][IF agenda # <<>>
       THEN LET elem == At(tree, Head(agenda)) IN
            CASE elem.t = "table" ->
                   table' = [set |-> TRUE, aligns |-> elem.align, index |-> 0]
              [] elem.t = "tr" ->
                   IF table.set
                   THEN table' = [set |-> TRUE, aligns |-> table.aligns, index |-> 0]
                   ELSE table' = table
              [] elem.t \in CellKinds ->
                   /\ shell'[Head(agenda)].style = ExpectedAlign(table.aligns, table.index)
                   /\ IF table.set
                      THEN table' = [set |-> TRUE, aligns |-> table.aligns,
                                     index |-> table.index + 1]
                      ELSE table' = table
              [] OTHER -> table' = table
       ELSE table' = table]_vars

(* a finished pass whose last table is complete and whose state is still there, *)
(* the cursor beyond the alignment sequence after cells without an alignment   *)
C9_Witness ==
    /\ pc = "done"
    /\ table.set
    /\ table.index > Len(table.aligns)
    /\ \E p \in Nodes : At(tree, p).t = "table" /\ status[p] = "done"


----------------------------------------------------------------------------
(* Code fences *)

CodeNodes == {p \in Nodes : At(tree, p).t = "code"}

(* C10: once the fence collaborator has answered for a code node: with         *)
(* (node, modified) the output at the node's position is a fragment of a       *)
(* last-modified marker immediately followed by the collaborator's node, and   *)
(* on that step the marker is new and the handle refers to it; with            *)
(* (node, unmodified) the output is the node alone and the step creates no     *)
(* marker and leaves the handle as it was; with null the step leaves the       *)
(* handle as it was and the output, once the children are rendered, is a plain *)
(* code element around the renderings of the children.                         *)
C10_FenceMarking ==
    /\ [](\A p \in CodeNodes :
            /\ fence[p] = "modified" =>
                  /\ Delivered(p)
                  /\ Slot(p).tag = "#fragment" /\ Slot(p).key = KeyOf(p)
                  /\ Len(Slot(p).c) = 2
                  /\ Slot(p).c[1].tag = "span"
                  /\ Slot(p).c[1].cls = "last-modified-marker"
                  /\ Slot(p).c[1].ref \in 1..refs
                  /\ Slot(p).c[2] = FenceNode(KeyOf(p))
            /\ fence[p] = "unmodified" => Delivered(p) /\ Slot(p) = FenceNode(KeyOf(p))
            /\ fence[p] = "null" /\ status[p] = "done" =>
                  /\ Delivered(p)
                  /\ Slot(p).tag = "code" /\ Slot(p).key = KeyOf(p)
                  /\ Slot(p).c = results[p]
                  /\ Len(results[p]) = Len(At(tree, p).c)
                  /\ \A i \in 1..Len(results[p]) : Renders(results[p][i], Append(p, i)))
    /\ [][\A p \in CodeNodes :
            fence'[p] # fence[p] =>
               IF fence'[p] = "modified"
               THEN /\ refs' = refs + 1
                    /\ Slot(p)'.c[1].ref = refs'
                    /\ lastModifiedRef' = refs'
               ELSE refs' = refs /\ lastModifiedRef' = lastModifiedRef]_vars

(* a finished pass with a modified, an unmodified and a null fence, whose      *)
(* handle refers to the marker of the modified fence                           *)
C10_Witness ==
    /\ pc = "done"
    /\ \E p, q, r \in CodeNodes :
          /\ fence[p] = "modified" /\ fence[q] = "unmodified" /\ fence[r] = "null"
          /\ status[r] = "done"
          /\ result.lastModified = Slot(p).c[1].ref


----------------------------------------------------------------------------
(* Failures *)

(* C11, as claimed: a failure of the fence or math collaborator for a node    *)
(* is contained: the pass does not fail because of it.                        *)
C11_CollaboratorFailureContained ==
    \A p \in Nodes : status[p] = "rejected" => pc # "failed"


----------------------------------------------------------------------------
(* Last-modified handle *)

RECURSIVE MarkerRefs(_)
(* the refs of the last-modified markers of a sequence of output nodes, in    *)
(* output order                                                               *)
MarkerRefs(vs) ==
    IF vs = <<>> THEN <<>>
    ELSE (IF Head(vs).cls = "last-modified-marker" THEN <<Head(vs).ref>> ELSE <<>>)
         \o MarkerRefs(Head(vs).c) \o MarkerRefs(Tail(vs))

(* C12: the session holds one handle; it is null (0) while no marker has been *)
(* created and otherwise is the ref of the marker created last (markers are   *)
(* numbered in the order of their creation); the handle of the result is that *)
(* handle, so it is null exactly when the pass created no marker; and the     *)
(* output tree of the result holds every marker created, each once.           *)
C12_HandleIsLatestMarker ==
    /\ lastModifiedRef = refs
    /\ pc = "done" =>
          /\ result.lastModified = refs
          /\ (result.lastModified = 0) <=> (MarkerRefs(<<result.root>>) = <<>>)
          /\ Len(MarkerRefs(<<result.root>>)) = refs
          /\ {MarkerRefs(<<result.root>>)[i] : i \in 1..refs} = 1..refs

(* a fence before an explicit 'modified' node: the marker of the fence is     *)
(* created after the explicit one, and the handle refers to it although it is *)
(* the earlier of the two in the output                                       *)
C12_Witness ==
    /\ pc = "done"
    /\ Len(tree) = 2
    /\ tree[1].t = "code" /\ tree[2].t = "modified"
    /\ fence[<<1>>] = "modified"
    /\ MarkerRefs(<<result.root>>) = <<2, 1>>
    /\ result.lastModified = 2


----------------------------------------------------------------------------
(* Unknown kinds *)

RECURSIVE Visible(_)
(* what a sequence of output nodes shows: without the nulls and the keys *)
Visible(vs) ==
    IF vs = <<>> THEN <<>>
    ELSE (IF Head(vs) = Null THEN <<>>
          ELSE <<[Head(vs) EXCEPT !.key = NoKey, !.c = Visible(Head(vs).c)]>>)
         \o Visible(Tail(vs))

(* the input of the first pass *)
FirstTree == IF previous.taken THEN previous.tree ELSE tree

(* C13, as claimed: a node of an unknown kind yields null at its position and *)
(* raises nothing, and the pass is exactly as if the node were absent: the    *)
(* pass over the tree without the unknown nodes ends the same way, shows the  *)
(* same output (nulls and keys aside) and leaves the same table state,        *)
(* collected footnotes, match count and handle; and the legacy renderer       *)
(* leaves the same document and trackers as for the tree without them.        *)
C13_UnknownKindAsIfAbsent ==
    /\ \A p \in Nodes :
          At(tree, p).t \notin KnownKinds /\ status[p] # "new" =>
             status[p] = "done" /\ Slot(p) = Null
    /\ /\ previous.taken /\ pc \in {"done", "failed"}
       /\ tree # previous.tree /\ tree = Prune(previous.tree, KnownKinds)
       => /\ previous.pc = pc
          /\ pc = "done" =>
                /\ Visible(<<previous.result.root>>) = Visible(<<result.root>>)
                /\ previous.result.matchCount = result.matchCount
                /\ previous.result.lastModified = result.lastModified
                /\ previous.table = table
                /\ previous.footNotes = [k \in 1..Len(footNotes) |-> At(tree, footNotes[k]).id]
    /\ renders > 0 =>
          \A r \in {legacyEnd(legacyRenderAll(Prune(FirstTree, LegacyKinds), NewRenderer))} :
             /\ rootElem = r.out
             /\ renderer.threw = r.threw
             /\ renderer.table = r.table
             /\ Len(renderer.footNotes) = Len(r.footNotes)
             /\ \A k \in 1..Len(r.footNotes) : renderer.footNotes[k].id = r.footNotes[k].id


----------------------------------------------------------------------------
(* Cells outside a table *)

StrayCells == {p \in Nodes : At(tree, p).t \in CellKinds /\ EnclosingTables(p) = {}}

(* C14, as claimed: a th/td that is not inside any table node, whether it is  *)
(* met before any table of the pass or after an earlier table has finished,   *)
(* is rendered without alignment style, and rendering it raises nothing.     *)
C14_StrayCellsUnstyled ==
    \A p \in StrayCells :
       /\ status[p] # "rejected"
       /\ CellRendered(p) => shell[p].style = NoStyle


----------------------------------------------------------------------------
(* Overlapping calls *)

RECURSIVE HasKind(_, _)
HasKind(forest, t) ==
    /\ forest # <<>>
    /\ \/ Head(forest).t = t
       \/ HasKind(Head(forest).c, t)
       \/ HasKind(Tail(forest), t)

Trackers == <<table, footNotes, matchCount, lastModifiedRef, refs>>

----------------------------------------------------------------------------
(* Back-references *)

(* how many of the children, and of their children, are the link a *)
LinksIn(children, a) ==
    Cardinality({i \in 1..Len(children) : children[i] = a})
    + Cardinality({ij \in (1..Len(children)) \X (1..MaxNodes + 1) :
                      /\ ij[2] <= Len(children[ij[1]].c)
                      /\ children[ij[1]].c[ij[2]] = a})

(* the item's children end with the link, at the top level or as the last     *)
(* child of the last child, and hold it once                                  *)
EndsWithLink(children, a) ==
    /\ children # <<>>
    /\ LET last == children[Len(children)] IN
       \/ last = a
       \/ last.c # <<>> /\ last.c[Len(last.c)] = a
    /\ LinksIn(children, a) = 1

(* the <li> elements of the legacy document's footnote section *)
LegacyItems ==
    IF rootElem # <<>> /\ rootElem[Len(rootElem)].tag = "section"
    THEN rootElem[Len(rootElem)].c[2].c ELSE <<>>

(* C16, as claimed: in both renderers every collected definition's item ends  *)
(* with exactly one link back to user-content-fnref-X, inside the last child  *)
(* when it can hold children and after it otherwise; placing the link never   *)
(* fails, whatever the last child is; a body [text("note")] becomes the text  *)
(* followed by the link.                                                      *)
C16_BackrefPlaced ==
    /\ pc = "failed" => \E p \in Nodes : status[p] = "rejected"
    /\ \A k \in 1..Len(items) :
          items[k] # Pending =>
             EndsWithLink(items[k].c, Backref(At(tree, draining[k]).id))
    /\ renders > 0 =>
          /\ ~renderer.threw
          /\ Len(LegacyItems) = Len(renderer.footNotes)
          /\ \A k \in 1..Len(LegacyItems) :
                EndsWithLink(LegacyItems[k].c, LegacyBackref(renderer.footNotes[k].id))
          /\ tree = <<FnDef(1, <<Text("note")>>)>> =>
                LegacyItems[1].c = <<Str(<<"note">>), LegacyBackref(1)>>


----------------------------------------------------------------------------
(* Rendering again *)

RECURSIVE Structure(_)
(* the output without the identity of the ref objects of its markers *)
Structure(vs) ==
    [i \in 1..Len(vs) |-> [vs[i] EXCEPT !.ref = 0, !.c = Structure(vs[i].c)]]

(* two finished passes over the same tree whose collaborators gave the same   *)
(* result for every node                                                      *)
SameRenderTwice ==
    /\ previous.taken
    /\ previous.pc = "done" /\ pc = "done"
    /\ tree = previous.tree
    /\ fence = previous.fence

(* C17, as claimed: the second of two such passes has the same output         *)
(* structure, the same footnotes in the same order and the same match count   *)
(* as the first, in whichever order the collaborators completed in each.      *)
C17_RerenderIdentical ==
    SameRenderTwice =>
       /\ Structure(<<result.root>>) = Structure(<<previous.result.root>>)
       /\ [k \in 1..Len(footNotes) |-> At(tree, footNotes[k]).id] = previous.footNotes
       /\ result.matchCount = previous.result.matchCount


----------------------------------------------------------------------------
(* The legacy renderer *)

RECURSIVE CellStylesOf(_)
(* the styles of the th and td elements of a document, in document order *)
CellStylesOf(vs) ==
    IF vs = <<>> THEN <<>>
    ELSE (IF Head(vs).tag \in CellKinds THEN <<Head(vs).style>> ELSE <<>>)
         \o CellStylesOf(Head(vs).c) \o CellStylesOf(Tail(vs))

(* the table states with the alignments of a table of the tree, at any cursor *)
TableStates ==
    {[set |-> TRUE, aligns |-> At(tree, T).align, index |-> k] :
        T \in Tables, k \in 0..(MaxCols + 1)}

(* C18, as claimed: for every table state tableAlign() yields what            *)
(* tableAlignStyle() yields (the declared alignment when the cursor is within *)
(* the alignment sequence and the entry is not null, null otherwise), and the *)
(* cells of the legacy document carry the alignments that the asynchronous    *)
(* renderer gives to the same cells.                                          *)
C18_LegacyAlignAgrees ==
    /\ renders > 0 =>
       \A tbl \in TableStates :
          tableAlign(tbl) = IF tableAlignStyle(tbl) = NoStyle THEN AlignNull
                            ELSE tableAlignStyle(tbl)
    /\ renders > 0 /\ ~HasKind(tree, "code") =>
          CellStylesOf(rootElem) = RunAlone(tree).styles

(* C19: the constructor throws exactly when the mount element is absent; no   *)
(* render is made, and nothing is ever written, without a constructed object  *)
(* on an existing mount element; with the element present construction        *)
(* succeeds and render() can be called.                                       *)
C19_MountTarget ==
    /\ [](/\ preview = "threw" <=> preview # "none" /\ ~mount
          /\ preview = "mounted" <=> preview # "none" /\ mount
          /\ renders > 0 => mount /\ preview = "mounted"
          /\ ~mount => rootElem = <<>> /\ renderer = NewRenderer)
    /\ [][renders' # renders => mount /\ preview = "mounted" /\ preview' = "mounted"]_vars

(* the constructor has thrown for a document without the mount element *)
C19_Witness == preview = "threw" /\ ~mount /\ renders = 0 /\ tree # <<>>


----------------------------------------------------------------------------
(* Order of the tracker updates *)

TrackerKinds ==
    {"table", "tr", "th", "td", "fn-def", "match-start", "match-current-start", "modified"}

(* the nodes whose render() updates a tracker, that render() can reach and    *)
(* that have no ancestor of a kind in K                                       *)
TrackedOutside(K) ==
    {p \in Nodes :
        /\ At(tree, p).t \in TrackerKinds
        /\ \A q \in ProperAncestors(p) :
              /\ At(tree, q).t \in ContainerKinds \cup {"fn-def", "code"}
              /\ At(tree, q).t \notin K}

(* the nodes of S were rendered in document order so far, and the collector   *)
(* holds those of them that are definitions in document order                 *)
TrackedInOrder(S) ==
    /\ \A p \in S : status[p] # "new" => \A q \in S : Before(q, p) => status[q] # "new"
    /\ \A i, j \in 1..Len(footNotes) :
          i < j /\ footNotes[i] \in S /\ footNotes[j] \in S
             => Before(footNotes[i], footNotes[j])

(* a suspended render() call goes on: a collaborator has settled, or all the  *)
(* children of a container have                                               *)
BranchResumes ==
    \E p \in Nodes : status[p] \in {"fence", "math", "children"} /\ status'[p] # status[p]

(* C20, as claimed: the tracker updates of the nodes without a code ancestor  *)
(* are made in document order, all of them before any suspended branch        *)
(* resumes, and the collector holds those definitions in document order.      *)
C20_TrackedBeforeResume ==
    /\ [](\A S \in {TrackedOutside({"code"})} : TrackedInOrder(S))
    /\ [][BranchResumes => \A p \in TrackedOutside({"code"}) : status[p] # "new"]_vars

(* C20, amended: the same for the nodes that have neither a code ancestor nor *)
(* a footnote definition ancestor (the body of a definition is rendered by    *)
(* renderFootnotes, after the main tree has settled).                         *)
C20_TrackedOutsideNotesBeforeResume ==
    /\ [](\A S \in {TrackedOutside({"code", "fn-def"})} : TrackedInOrder(S))
    /\ [][BranchResumes =>
             \A p \in TrackedOutside({"code", "fn-def"}) : status[p] # "new"]_vars

(* a fence is pending and the definitions outside it have all been collected *)
C20_Witness ==
    /\ \E p \in Nodes : status[p] = "fence" /\ fence[p] = ""
    /\ agenda = <<>>
    /\ Len(footNotes) >= 2
    /\ \A k \in 1..Len(footNotes) : footNotes[k] \in TrackedOutside({"code", "fn-def"})
    /\ \A p \in TrackedOutside({"code", "fn-def"}) : status[p] # "new"


----------------------------------------------------------------------------
(* Position of the marker of the handle *)

RECURSIVE HoldsRef(_, _)
(* one of the output nodes vs, or of their descendants, is the marker of ref *)
HoldsRef(vs, ref) ==
    \E i \in 1..Len(vs) :
       \/ vs[i].cls = "last-modified-marker" /\ vs[i].ref = ref
       \/ HoldsRef(vs[i].c, ref)

RECURSIVE PathTo(_, _)
(* the child indices that lead from the output nodes vs to the marker of ref *)
PathTo(vs, ref) ==
    IF ~HoldsRef(vs, ref) THEN <<>>
    ELSE LET i == CHOOSE k \in 1..Len(vs) : HoldsRef(<<vs[k]>>, ref) IN
         IF vs[i].cls = "last-modified-marker" /\ vs[i].ref = ref THEN <<i>>
         ELSE <<i>> \o PathTo(vs[i].c, ref)

(* where in its output a result's handle points; nowhere without a handle *)
HandlePosition(res) ==
    IF res.lastModified = 0 THEN <<>> ELSE PathTo(<<res.root>>, res.lastModified)

(* C21, as claimed: for one tree and the same fence results, the marker that  *)
(* the returned handle refers to is at the same position of the output in     *)
(* whichever order the fence renders completed.                               *)
C21_HandlePositionFixed ==
    SameRenderTwice => HandlePosition(result) = HandlePosition(previous.result)


----------------------------------------------------------------------------
(* Calls one after the other *)

(* what PreviewContent.render(t) leaves in an empty root *)
LegacyAlone(t) == legacyEnd(legacyRenderAll(t, NewRenderer))

(* C22: whatever was rendered before, a legacy render leaves in the root and  *)
(* in its renderer exactly what rendering the tree alone gives; a later       *)
(* asynchronous call starts with empty trackers and ends with the match       *)
(* count, handle, table state, footnotes and footnote items of its own tree   *)
(* (compared on trees without code nodes).                                    *)
C22_NothingSurvivesAPass ==
    /\ [][renders' # renders =>
             /\ renderer' = LegacyAlone(tree)
             /\ rootElem' = LegacyAlone(tree).out]_vars
    /\ [][previous' # previous =>
             /\ table' = NoTable /\ footNotes' = <<>> /\ matchCount' = 0
             /\ lastModifiedRef' = 0 /\ items' = <<>> /\ result' = NoResult]_vars
    /\ [](previous.taken /\ pc = "done" /\ ~HasKind(tree, "code") =>
            \A alone \in {RunAlone(tree)} :
               /\ result.matchCount = alone.matchCount
               /\ result.lastModified = alone.lastModifiedRef
               /\ table = alone.table
               /\ [k \in 1..Len(footNotes) |-> At(tree, footNotes[k]).id]
                     = TrackedResult(alone).footNotes
               /\ Len(items) = Len(alone.footNotes))

(* a second call has ended after a call that left table state and footnotes,  *)
(* and the legacy renderer has rendered both trees                            *)
C22_Witness ==
    /\ previous.taken /\ pc = "done"
    /\ previous.table.set /\ previous.footNotes # <<>>
    /\ tree = <<Elem("td", <<>>)>>
    /\ renders = 2 /\ rootElem = LegacyAlone(tree).out


----------------------------------------------------------------------------
(* Raw markup in the legacy renderer *)

(* C23, as claimed: the k top-level nodes of the raw markup of an html        *)
(* element at the end of the tree are all in the root after the render, in    *)
(* the order of the markup, after what was appended to the root before them.  *)
C23_RawMarkupInOrder ==
    renders > 0 /\ tree # <<>> /\ tree[Len(tree)].t = "html" =>
       LET raw == tree[Len(tree)].text
           before == LegacyAlone(SubSeq(tree, 1, Len(tree) - 1)).out
       IN /\ Len(rootElem) = Len(before) + Len(raw)
          /\ rootElem = before \o [i \in 1..Len(raw) |-> Str(<<raw[i]>>)]


----------------------------------------------------------------------------
(* The reducer *)

(* this step is one call of the reducer, with an action of this kind *)
Reduces(kind) == reduced'.calls = reduced.calls + 1 /\ reduced'.action.kind = kind

(* C24: in every reachable state searchIndex is null when searching is false, *)
(* and a search_index action that arrives while searching is false leaves the *)
(* state as it is.                                                            *)
C24_NoIndexUnlessSearching ==
    /\ [](~state.searching => state.searchIndex = NoIndex)
    /\ [][Reduces("search_index") /\ ~state.searching => state' = state]_vars

(* an index has been dispatched while no search was open *)
C24_Witness ==
    /\ reduced.action.kind = "search_index" /\ reduced.action.index # NoIndex
    /\ ~state.searching /\ state.searchIndex = NoIndex

(* C25: open_search leaves a searching state unchanged, index included, and   *)
(* makes a state that is not searching searching with a null index;           *)
(* close_search gives searching false and a null index; so opening after      *)
(* closing gives a null index.                                                *)
C25_OpenSearchIdempotent ==
    /\ [][Reduces("open_search") =>
             state' = IF state.searching THEN state
                      ELSE [state EXCEPT !.searching = TRUE, !.searchIndex = NoIndex]]_vars
    /\ [][Reduces("close_search") =>
             ~state'.searching /\ state'.searchIndex = NoIndex]_vars
    /\ [](reducer(reducer(state, closeSearch), openSearch).searchIndex = NoIndex)

(* open_search has been dispatched to a search that had an index *)
C25_Witness ==
    /\ reduced.action.kind = "open_search"
    /\ state.searching /\ state.searchIndex # NoIndex

Fields == {"searching", "searchIndex", "matcher", "previewing", "outline", "theme"}

(* the fields that an action of a kind may change *)
FieldsOf(kind) ==
    CASE kind \in {"open_search", "close_search", "search_index"} ->
           {"searching", "searchIndex"}
      [] kind = "search_matcher" -> {"matcher"}
      [] kind = "previewing" -> {"previewing"}
      [] kind = "outline" -> {"outline"}
      [] kind = "theme" -> {"theme"}
      [] OTHER -> {}

(* C26: a call of the reducer changes no field other than those of the kind   *)
(* of its action: matcher for search_matcher, previewing for previewing,      *)
(* outline for outline, theme for theme, searching and searchIndex for        *)
(* open_search, close_search and search_index.                                *)
C26_ReducerFrame ==
    [][reduced'.calls = reduced.calls + 1 =>
          \A f \in Fields \ FieldsOf(reduced'.action.kind) : state'[f] = state[f]]_vars

(* a theme action has changed the theme of a state with an open outline and   *)
(* an open search                                                             *)
C26_Witness ==
    /\ reduced.action.kind = "theme" /\ state.theme = "dark"
    /\ state.outline /\ state.searching


----------------------------------------------------------------------------
(* The dispatcher *)

SearchMessages == {"search_next", "search_previous"}
SearchKeys == {"SearchNext", "SearchPrev"}

(* the states after the reducer calls that a handler's calls lead to, when    *)
(* all of them complete or one of them raises                                 *)
StatesAfter(calls) ==
    {reduceAll(state, Reaching(calls, completed, dispatcher)) : completed \in 0..Len(calls)}

SameSearch(st) == st.searching = state.searching /\ st.searchIndex = state.searchIndex

(* C28: a search_next or search_previous message, or a SearchNext or          *)
(* SearchPrev key action, that is handled while the reducer's state is not    *)
(* searching changes neither searching nor searchIndex of that state, also    *)
(* when the dispatcher's copy of the state still says searching: in every     *)
(* reachable state, for every such message or key action and every index it   *)
(* computes, and in every step in which the dispatcher's index reaches the    *)
(* reducer.                                                                   *)
C28_ClosedSearchIgnoresNext ==
    /\ [](~state.searching =>
            \A next \in Indices \cup {NoIndex} :
               /\ \A kind \in SearchMessages :
                     \A st \in StatesAfter(
                               MessageCalls(kind, dispatcher, next, "Light", "SmartCase")) :
                        SameSearch(st)
               /\ \A action \in SearchKeys :
                     \A st \in StatesAfter(KeyActionCalls(action, dispatcher, next)) :
                        SameSearch(st))
    /\ [][Reduces("search_index") /\ reduced'.by = "dispatcher" /\ ~state.searching =>
             SameSearch(state')]_vars

(* the dispatcher, with a copy of the state that still says searching, has    *)
(* dispatched an index to a reducer whose search is closed                    *)
C28_Witness ==
    /\ dispatcher.state.searching
    /\ reduced.by = "dispatcher" /\ reduced.action.kind = "search_index"
    /\ reduced.action.index # NoIndex
    /\ ~state.searching /\ state.searchIndex = NoIndex


----------------------------------------------------------------------------
(* The key mapping *)

(* the actions of maps that are keys of the KeyShortcuts table *)
KnownActions(maps) == {maps[i].action : i \in DOMAIN maps} \cap Range(ShortcutNames)

(* the key bindings that maps gives to an action *)
KeybindsOf(maps, action) == {maps[i].keybind : i \in {j \in DOMAIN maps : maps[j].action = action}}

(* C29: after register(maps, dispatcher) has been called, it has returned,    *)
(* and shortcuts has one entry for each known action of the maps of the last  *)
(* call and no other entry, the binds of an entry are the key bindings that   *)
(* these maps give to its action, and the entries are in ascending order of   *)
(* their actions; the bindings of unknown actions are skipped.                *)
C29_RegisterExact ==
    keymapping.calls > 0 =>
       \A sc \in {keymapping.shortcuts} : \A maps \in {keymapping.maps} :
          /\ ~keymapping.threw
          /\ {sc[k].action : k \in DOMAIN sc} = KnownActions(maps)
          /\ Len(sc) = Cardinality(KnownActions(maps))
          /\ \A k \in DOMAIN sc :
                /\ Range(sc[k].binds) = KeybindsOf(maps, sc[k].action)
                /\ Len(sc[k].binds) = Cardinality(KeybindsOf(maps, sc[k].action))
          /\ \A k, l \in DOMAIN sc : k < l => ActionBefore(sc[k].action, sc[l].action)

====
